---- MODULE Spec2Model ----
(***************************************************************************)
(* Verification model of the UPSC Vault bot: the content repository        *)
(* (src/database.py), the session store and the conversation router        *)
(* (src/bot_handlers.py).                                                  *)
(*                                                                         *)
(* Eight specifications share the definitions of the SQL statements and    *)
(* of the connection protocol:                                             *)
(*   Spec      the bot as python-telegram-bot runs it: one event loop, one *)
(*             handler at a time, every handler one atomic step, followed  *)
(*             within one cleanup interval of the construction;            *)
(*   SpecAdmin the same with the administrator as the only user;           *)
(*   SpecRepo  the DatabaseManager called from several threads, one step   *)
(*             per SQL statement, with SQLite's single-writer lock.        *)
(*   SpecSession  the session store of BotHandlers driven operation by     *)
(*             operation (_update_user_state, a scratch write,             *)
(*             _reset_user_state, a text message) for any user: every      *)
(*             combination of state and scratch data the store can hold;   *)
(*   SpecClock the operations of the session store while the clock         *)
(*             advances: the timestamps and the hourly sweep;              *)
(*   SpecFlows the handlers of the bot (/start, the administrator's        *)
(*             buttons and texts) while the clock advances;                *)
(*   SpecButtons  the administrator's chat, where only the buttons of the  *)
(*             keyboards the bot has displayed are pressed;                *)
(*   SpecCalls the DatabaseManager called by one caller, one whole call    *)
(*             per step: the content the calls can store.                  *)
(***************************************************************************)
EXTENDS Integers, Sequences, FiniteSets, TLC

VARIABLES
    user_states,        \* BotHandlers.user_states: dict user id -> state
    temp_data,          \* BotHandlers.temp_data: dict user id -> dict key -> value
    state_timestamps,   \* BotHandlers.state_timestamps: dict user id -> time
    last_cleanup,       \* BotHandlers._last_cleanup
    now,                \* time.time(), in seconds since the handlers were built
    welcome,            \* config.WELCOME_MESSAGE (module global)
    db,                 \* the committed content of the SQLite file
    steps,              \* number of requests made so far (events, repository calls)
    faults,             \* number of storage faults so far (SpecRepo)
    conn,               \* per thread: the thread-local connection (SpecRepo)
    wlock,              \* the thread holding SQLite's write lock, or NoThread
    shown,              \* the callback data of the keyboards displayed so far (SpecButtons)
    th                  \* per thread: the repository call in progress (SpecRepo)

vars == <<user_states, temp_data, state_timestamps, last_cleanup, now, welcome,
          db, steps, faults, conn, wlock, th, shown>>

botVars  == <<user_states, temp_data, state_timestamps, last_cleanup, now, welcome>>
repoVars == <<faults, conn, wlock, th>>
histVars == <<shown>>

----------------------------------------------------------------------------
(* Bounds of the model *)

\* largest AUTOINCREMENT id a table hands out before the model stops inserting
MaxSubjectId == 7
MaxLectureId == 1
MaxBookId == 1
\* number of events (commands, button presses, texts) the bot is followed for
MaxEvents == 6
\* number of repository calls the threads make in SpecRepo
MaxCalls == 2
\* number of storage faults (disk full, I/O error) in SpecRepo
MaxFaults == 1
\* number of operations followed in SpecSession, SpecClock, SpecFlows and SpecCalls
MaxOperations == 3
\* number of times the clock advances in SpecClock and SpecFlows
MaxTicks == 5
\* number of events of the administrator's chat followed in SpecButtons
MaxPresses == 10

----------------------------------------------------------------------------
(* Text.  A string is a sequence of one-character strings. *)

\* str.strip(): whitespace removed at both ends
RECURSIVE lstrip(_)
lstrip(s) == IF s # <<>> /\ Head(s) = " " THEN lstrip(Tail(s)) ELSE s

RECURSIVE rstrip(_)
rstrip(s) == IF s # <<>> /\ s[Len(s)] = " " THEN rstrip(SubSeq(s, 1, Len(s) - 1)) ELSE s

strip(s) == rstrip(lstrip(s))

\* "not name or not name.strip()"
IsBlank(s) == s = <<>> \/ strip(s) = <<>>

\* the characters of the model in the order of their code points
Ascii ==
    << " ", "%", "(", ")", "*", "0", "1", "2", "A", "E", "G", "H", "I", "K", "L", "M",
       "N", "P", "W", "[", "\\", "]", "_", "a", "g", "{", "}" >>

Ord(ch) == CHOOSE i \in 1 .. Len(Ascii) : Ascii[i] = ch

\* s < t for two strings, as SQLite's BINARY collation compares TEXT values
\* (memcmp, the shorter of two equal beginnings first)
RECURSIVE LessText(_, _)
LessText(s, t) ==
    IF t = <<>> THEN FALSE
    ELSE IF s = <<>> THEN TRUE
    ELSE IF Head(s) = Head(t) THEN LessText(Tail(s), Tail(t))
    ELSE Ord(Head(s)) < Ord(Head(t))

----------------------------------------------------------------------------
(* config.py *)

ADMIN_ID == 1

\* config.DEFAULT_SUBJECTS, each name shortened to a letter
DEFAULT_SUBJECTS == << <<"A">>, <<"M">>, <<"H">>, <<"P">>, <<"G">>, <<"E">> >>

DEFAULT_WELCOME == <<"W">>

BookTypes == {"ncert", "upsc", "other"}

----------------------------------------------------------------------------
(* The SQLite store.  A database image is a record: the tables that exist, *)
(* their rows, and sqlite_sequence (the last AUTOINCREMENT id of a table). *)

AllTables == {"subjects", "lectures", "books"}

NoSeq == [subjects |-> 0, lectures |-> 0, books |-> 0]

EmptyDb == [tables |-> {}, subjects |-> {}, lectures |-> {}, books |-> {}, seq |-> NoSeq]

\* the result of one SQL statement: the image after it, the exception it
\* raised ("none" if it ran), cursor.rowcount and the rows fetched
Ran(d, n, rows) == [db |-> d, err |-> "none", rowcount |-> n, rows |-> rows]
Raised(d, e) == [db |-> d, err |-> e, rowcount |-> 0, rows |-> {}]

\* PRAGMA foreign_keys = ON, set on every connection the manager opens
foreign_keys_off == FALSE
foreign_keys == TRUE

\* CREATE TABLE IF NOT EXISTS <t>
SqlCreateTable(d, t) ==
    Ran([d EXCEPT !.tables = @ \cup {t}], 0, {})

\* CREATE INDEX IF NOT EXISTS ... ON <t>(...)
SqlCreateIndex(d, t) ==
    IF t \notin d.tables THEN Raised(d, "OperationalError") ELSE Ran(d, 0, {})

\* DROP TABLE IF EXISTS <t>: with foreign keys on, dropping a parent table
\* first deletes its rows, which cascades to the child rows
SqlDropTable(d, t) ==
    LET cascade == t = "subjects" /\ foreign_keys /\ "lectures" \in d.tables
    IN Ran([d EXCEPT !.tables = @ \ {t},
                     ![t] = {},
                     !.seq[t] = 0,
                     !.lectures = IF cascade \/ t = "lectures" THEN {} ELSE @], 0, {})

\* SELECT COUNT(*) FROM subjects
SqlCountSubjects(d) ==
    IF "subjects" \notin d.tables THEN Raised(d, "OperationalError")
    ELSE Ran(d, 0, Cardinality(d.subjects))

\* INSERT INTO subjects (name) VALUES (?)   -- name TEXT UNIQUE NOT NULL
SqlInsertSubject_NoUnique(d, name) ==
    IF "subjects" \notin d.tables THEN Raised(d, "OperationalError")
    ELSE Ran([d EXCEPT !.subjects = @ \cup {[id |-> d.seq.subjects + 1, name |-> name]},
                       !.seq.subjects = @ + 1], 1, {})

SqlInsertSubject(d, name) ==
    IF "subjects" \notin d.tables THEN Raised(d, "OperationalError")
    ELSE IF \E s \in d.subjects : s.name = name THEN Raised(d, "IntegrityError")
    ELSE Ran([d EXCEPT !.subjects = @ \cup {[id |-> d.seq.subjects + 1, name |-> name]},
                       !.seq.subjects = @ + 1], 1, {})

\* SELECT id, name FROM subjects ORDER BY name   (the rows, as a set)
SqlSelectSubjects(d) ==
    IF "subjects" \notin d.tables THEN Raised(d, "OperationalError")
    ELSE Ran(d, 0, d.subjects)

\* SELECT 1 FROM subjects WHERE id = ?  /  SELECT name FROM subjects WHERE id = ?
SqlSelectSubject(d, id) ==
    IF "subjects" \notin d.tables THEN Raised(d, "OperationalError")
    ELSE Ran(d, 0, {s \in d.subjects : s.id = id})

\* SELECT id FROM subjects WHERE name = ?
SqlSelectSubjectByName(d, name) ==
    IF "subjects" \notin d.tables THEN Raised(d, "OperationalError")
    ELSE Ran(d, 0, {s \in d.subjects : s.name = name})

\* DELETE FROM subjects WHERE id = ?   -- lectures: ON DELETE CASCADE
SqlDeleteSubject_NoCascade(d, id) ==
    IF "subjects" \notin d.tables THEN Raised(d, "OperationalError")
    ELSE Ran([d EXCEPT !.subjects = {s \in @ : s.id # id}],
             Cardinality({s \in d.subjects : s.id = id}), {})

SqlDeleteSubject(d, id) ==
    IF "subjects" \notin d.tables THEN Raised(d, "OperationalError")
    ELSE LET cascade == foreign_keys /\ "lectures" \in d.tables
         IN Ran([d EXCEPT !.subjects = {s \in @ : s.id # id},
                          !.lectures = IF cascade THEN {l \in @ : l.subject_id # id} ELSE @],
                Cardinality({s \in d.subjects : s.id = id}), {})

\* UPDATE subjects SET name = ? WHERE id = ?
SqlUpdateSubjectName_NoUnique(d, id, name) ==
    IF "subjects" \notin d.tables THEN Raised(d, "OperationalError")
    ELSE Ran([d EXCEPT !.subjects = {IF s.id = id THEN [s EXCEPT !.name = name] ELSE s : s \in @}],
             Cardinality({s \in d.subjects : s.id = id}), {})

SqlUpdateSubjectName(d, id, name) ==
    IF "subjects" \notin d.tables THEN Raised(d, "OperationalError")
    ELSE IF (\E s \in d.subjects : s.id = id)
            /\ (\E s \in d.subjects : s.id # id /\ s.name = name)
         THEN Raised(d, "IntegrityError")
    ELSE Ran([d EXCEPT !.subjects = {IF s.id = id THEN [s EXCEPT !.name = name] ELSE s : s \in @}],
             Cardinality({s \in d.subjects : s.id = id}), {})

\* INSERT INTO lectures (subject_id, lecture_no, content) VALUES (?, ?, ?)
\*   -- FOREIGN KEY (subject_id) REFERENCES subjects(id)
SqlInsertLecture(d, subject_id, lecture_no, content) ==
    IF "lectures" \notin d.tables THEN Raised(d, "OperationalError")
    ELSE IF foreign_keys /\ "subjects" \notin d.tables THEN Raised(d, "OperationalError")
    ELSE IF foreign_keys /\ ~ \E s \in d.subjects : s.id = subject_id
         THEN Raised(d, "IntegrityError")
    ELSE Ran([d EXCEPT !.lectures = @ \cup {[id |-> d.seq.lectures + 1,
                                             subject_id |-> subject_id,
                                             lecture_no |-> lecture_no,
                                             content |-> content]},
                       !.seq.lectures = @ + 1], 1, {})

\* SELECT id, lecture_no, content FROM lectures WHERE subject_id = ? ORDER BY lecture_no
\* ORDER BY lecture_no: the rows as a list, the lowest lecture_no first; rows
\* with the same lecture_no in the order of their ids (SQL leaves their order
\* open; SQLite keeps the order of the scan)
RECURSIVE OrderByLectureNo(_)
OrderByLectureNo(rows) ==
    IF rows = {} THEN <<>>
    ELSE LET first == CHOOSE x \in rows : \A y \in rows \ {x} :
                          \/ LessText(x.lecture_no, y.lecture_no)
                          \/ x.lecture_no = y.lecture_no /\ x.id < y.id
         IN <<first>> \o OrderByLectureNo(rows \ {first})

RECURSIVE OrderById(_)
OrderById(rows) ==
    IF rows = {} THEN <<>>
    ELSE LET first == CHOOSE x \in rows : \A y \in rows : x.id <= y.id
         IN <<first>> \o OrderById(rows \ {first})

SqlSelectLectures_ById(d, subject_id) ==
    IF "lectures" \notin d.tables THEN Raised(d, "OperationalError")
    ELSE Ran(d, 0, OrderById({l \in d.lectures : l.subject_id = subject_id}))

SqlSelectLectures(d, subject_id) ==
    IF "lectures" \notin d.tables THEN Raised(d, "OperationalError")
    ELSE Ran(d, 0, OrderByLectureNo({l \in d.lectures : l.subject_id = subject_id}))

\* SELECT id, subject_id, lecture_no, content FROM lectures WHERE id = ?
SqlSelectLecture(d, id) ==
    IF "lectures" \notin d.tables THEN Raised(d, "OperationalError")
    ELSE Ran(d, 0, {l \in d.lectures : l.id = id})

\* UPDATE lectures SET content = ?, updated_at = CURRENT_TIMESTAMP WHERE id = ?
SqlUpdateLecture(d, id, content) ==
    IF "lectures" \notin d.tables THEN Raised(d, "OperationalError")
    ELSE Ran([d EXCEPT !.lectures = {IF l.id = id THEN [l EXCEPT !.content = content] ELSE l : l \in @}],
             Cardinality({l \in d.lectures : l.id = id}), {})

\* DELETE FROM lectures WHERE id = ?
SqlDeleteLecture(d, id) ==
    IF "lectures" \notin d.tables THEN Raised(d, "OperationalError")
    ELSE Ran([d EXCEPT !.lectures = {l \in @ : l.id # id}],
             Cardinality({l \in d.lectures : l.id = id}), {})

\* INSERT INTO books (name, type, content) VALUES (?, ?, ?)
\*   -- type TEXT NOT NULL CHECK (type IN ('ncert', 'upsc', 'other'))
SqlInsertBook(d, name, type, content) ==
    IF "books" \notin d.tables THEN Raised(d, "OperationalError")
    ELSE IF type \notin BookTypes THEN Raised(d, "IntegrityError")
    ELSE Ran([d EXCEPT !.books = @ \cup {[id |-> d.seq.books + 1, name |-> name,
                                          type |-> type, content |-> content]},
                       !.seq.books = @ + 1], 1, {})

\* SELECT id, name FROM books WHERE type = ? ORDER BY name
SqlSelectBooks(d, type) ==
    IF "books" \notin d.tables THEN Raised(d, "OperationalError")
    ELSE Ran(d, 0, {b \in d.books : b.type = type})

\* SELECT id, name, type, content FROM books WHERE id = ?
SqlSelectBook(d, id) ==
    IF "books" \notin d.tables THEN Raised(d, "OperationalError")
    ELSE Ran(d, 0, {b \in d.books : b.id = id})

\* UPDATE books SET content = ?, updated_at = CURRENT_TIMESTAMP WHERE id = ?
SqlUpdateBook(d, id, content) ==
    IF "books" \notin d.tables THEN Raised(d, "OperationalError")
    ELSE Ran([d EXCEPT !.books = {IF b.id = id THEN [b EXCEPT !.content = content] ELSE b : b \in @}],
             Cardinality({b \in d.books : b.id = id}), {})

\* DELETE FROM books WHERE id = ?
SqlDeleteBook(d, id) ==
    IF "books" \notin d.tables THEN Raised(d, "OperationalError")
    ELSE Ran([d EXCEPT !.books = {b \in @ : b.id # id}],
             Cardinality({b \in d.books : b.id = id}), {})

----------------------------------------------------------------------------
(* DatabaseManager: the connection protocol *)

\* the exceptions of the sqlite3.Error family; "locked" is the
\* sqlite3.OperationalError whose message contains "database is locked"
SqliteErrors == {"IntegrityError", "OperationalError", "locked"}

\* get_connection(): what the context manager does when the body of the with
\* statement ends with exception err ("none": it ended normally).
\*   close     the connection is discarded and a new one acquired
\*             (_close_connection, _get_connection), which drops what was pending
\*   rollback  conn.rollback() is called
\*   reruns    how many more times the body of the with statement runs: after the
\*             second yield contextlib finds the generator not stopped and raises
\*             RuntimeError("generator didn't stop after throw()") instead
\*   exc       the exception that leaves the with statement
\* The finally clause calls conn.commit() in every case.
get_connection(err) ==
    CASE err = "none" ->
            [close |-> FALSE, rollback |-> FALSE, reruns |-> 0, exc |-> "none"]
      [] err = "locked" ->
            [close |-> TRUE, rollback |-> FALSE, reruns |-> 0, exc |-> "RuntimeError"]
      [] err = "OperationalError" ->
            [close |-> FALSE, rollback |-> FALSE, reruns |-> 0, exc |-> err]
      [] OTHER ->
            [close |-> FALSE, rollback |-> TRUE, reruns |-> 0, exc |-> err]

\* The committed image after a with statement whose body worked on image d and
\* ended as r, when no other connection is active.
Committed(d, r) ==
    LET plan == get_connection(r.err)
    IN IF plan.close \/ plan.rollback THEN d ELSE r.db

\* what a repository call hands back: the committed image, the value
\* returned and the exception that escapes the call ("none" if it returned)
Returns(d, v) == [db |-> d, ret |-> v, exc |-> "none"]
Escapes(d, e) == [db |-> d, ret |-> FALSE, exc |-> e]

\* try: with self.get_connection() ... except sqlite3.Error: return onError
\* r is the body's last statement result, v the value the body returns
Guarded(d, r, v, onError) ==
    LET exc == get_connection(r.err).exc
    IN IF exc = "none" THEN Returns(Committed(d, r), v)
       ELSE IF exc \in SqliteErrors THEN Returns(Committed(d, r), onError)
       ELSE Escapes(Committed(d, r), exc)

----------------------------------------------------------------------------
(* DatabaseManager: the operations, each run alone on committed image d *)

RECURSIVE InsertDefaults(_, _)
\* for subject in DEFAULT_SUBJECTS: try INSERT except IntegrityError: pass
InsertDefaults(d, i) ==
    IF i > Len(DEFAULT_SUBJECTS) THEN Ran(d, 0, {})
    ELSE LET r == SqlInsertSubject(d, DEFAULT_SUBJECTS[i])
         IN IF r.err \in {"none", "IntegrityError"} THEN InsertDefaults(r.db, i + 1)
            ELSE r

init_database(d) ==
    LET d1 == SqlCreateTable(SqlCreateTable(SqlCreateTable(d, "subjects").db, "lectures").db, "books").db
        n  == SqlCountSubjects(d1)
        r  == IF n.rows = 0 THEN InsertDefaults(d1, 1) ELSE n
        exc == get_connection(r.err).exc
    \* the CREATE statements run outside a transaction: they are kept whatever follows
    IN IF exc = "none" THEN Returns(Committed(d1, r), TRUE)
       ELSE Escapes(Committed(d1, r), exc)

add_subject(d, name) ==
    IF IsBlank(name) THEN Returns(d, FALSE)
    ELSE Guarded(d, SqlInsertSubject(d, strip(name)), TRUE, FALSE)

get_subjects(d) ==
    LET r == SqlSelectSubjects(d) IN Guarded(d, r, r.rows, {})

delete_subject_AlwaysTrue(d, subject_id) ==
    LET r == SqlDeleteSubject(d, subject_id) IN Guarded(d, r, TRUE, FALSE)

delete_subject(d, subject_id) ==
    LET r == SqlDeleteSubject(d, subject_id) IN Guarded(d, r, r.rowcount > 0, FALSE)

rename_subject(d, subject_id, new_name) ==
    IF IsBlank(new_name) THEN Returns(d, FALSE)
    ELSE LET r == SqlUpdateSubjectName(d, subject_id, strip(new_name))
         IN Guarded(d, r, r.rowcount > 0, FALSE)

add_lecture_NoStrip(d, subject_id, lecture_no, content) ==
    IF IsBlank(lecture_no) \/ IsBlank(content) THEN Returns(d, FALSE)
    ELSE LET q == SqlSelectSubject(d, subject_id)
         IN IF q.err # "none" THEN Guarded(d, q, FALSE, FALSE)
            ELSE IF q.rows = {} THEN Returns(d, FALSE)
            ELSE Guarded(d, SqlInsertLecture(d, subject_id, lecture_no, content), TRUE, FALSE)

add_lecture(d, subject_id, lecture_no, content) ==
    IF IsBlank(lecture_no) \/ IsBlank(content) THEN Returns(d, FALSE)
    ELSE LET q == SqlSelectSubject(d, subject_id)
         IN IF q.err # "none" THEN Guarded(d, q, FALSE, FALSE)
            ELSE IF q.rows = {} THEN Returns(d, FALSE)
            ELSE Guarded(d, SqlInsertLecture(d, subject_id, strip(lecture_no), strip(content)),
                         TRUE, FALSE)

\* the rows as a list (cursor.fetchall()), [] on an error
get_lectures(d, subject_id) ==
    LET r == SqlSelectLectures(d, subject_id) IN Guarded(d, r, r.rows, <<>>)

\* the row, as a set of at most one element (empty: None)
get_lecture(d, lecture_id) ==
    LET r == SqlSelectLecture(d, lecture_id) IN Guarded(d, r, r.rows, {})

update_lecture(d, lecture_id, content) ==
    IF IsBlank(content) THEN Returns(d, FALSE)
    ELSE LET r == SqlUpdateLecture(d, lecture_id, strip(content))
         IN Guarded(d, r, r.rowcount > 0, FALSE)

delete_lecture(d, lecture_id) ==
    LET r == SqlDeleteLecture(d, lecture_id) IN Guarded(d, r, r.rowcount > 0, FALSE)

get_subject_name(d, subject_id) ==
    LET r == SqlSelectSubject(d, subject_id) IN Guarded(d, r, {s.name : s \in r.rows}, {})

get_subject_id(d, subject_name) ==
    LET r == SqlSelectSubjectByName(d, subject_name) IN Guarded(d, r, {s.id : s \in r.rows}, {})

add_book(d, name, book_type, content) ==
    IF IsBlank(name) \/ IsBlank(content) THEN Returns(d, FALSE)
    ELSE IF book_type \notin {"ncert", "upsc", "other"} THEN Returns(d, FALSE)
    ELSE Guarded(d, SqlInsertBook(d, strip(name), book_type, strip(content)), TRUE, FALSE)

add_book_statements_NoTypeCheck(name, book_type, content) ==
    IF IsBlank(name) \/ IsBlank(content) THEN <<>>
    ELSE <<"insert_book", "exit">>

\* the storage statements a call of add_book executes ("exit": the end of the
\* with statement)
add_book_statements(name, book_type, content) ==
    IF IsBlank(name) \/ IsBlank(content) THEN <<>>
    ELSE IF book_type \notin {"ncert", "upsc", "other"} THEN <<>>
    ELSE <<"insert_book", "exit">>

get_books(d, book_type) ==
    IF book_type \notin {"ncert", "upsc", "other"} THEN Returns(d, {})
    ELSE LET r == SqlSelectBooks(d, book_type) IN Guarded(d, r, r.rows, {})

get_book(d, book_id) ==
    LET r == SqlSelectBook(d, book_id) IN Guarded(d, r, r.rows, {})

update_book(d, book_id, content) ==
    IF IsBlank(content) THEN Returns(d, FALSE)
    ELSE LET r == SqlUpdateBook(d, book_id, strip(content))
         IN Guarded(d, r, r.rowcount > 0, FALSE)

delete_book(d, book_id) ==
    LET r == SqlDeleteBook(d, book_id) IN Guarded(d, r, r.rowcount > 0, FALSE)

\* DROP the three tables, then init_database(); except Exception: return False
reset_database(d) ==
    LET d3 == SqlDropTable(SqlDropTable(SqlDropTable(d, "lectures").db, "books").db, "subjects").db
        i  == init_database(d3)
    IN IF i.exc = "none" THEN Returns(i.db, TRUE) ELSE Returns(i.db, FALSE)

----------------------------------------------------------------------------
(* DatabaseManager: export and import of the whole store.  A document is a *)
(* record with the lists "subjects", "lectures", "books" (each key may be  *)
(* missing); an item is a JSON object, a record with some of its fields.   *)

\* a JSON number as the value of a field: str methods raise AttributeError on it
JsonNumber == <<"number 5">>
IsNumber(v) == v = JsonNumber

\* ORDER BY name: the rows as a list
RECURSIVE OrderByName(_)
OrderByName(rows) ==
    IF rows = {} THEN <<>>
    ELSE LET first == CHOOSE x \in rows : \A y \in rows \ {x} :
                          \/ LessText(x.name, y.name)
                          \/ x.name = y.name /\ x.id < y.id
         IN <<first>> \o OrderByName(rows \ {first})

\* the lectures of the subjects in list order, each subject's by lecture_no
RECURSIVE ExportLectures(_, _)
ExportLectures(d, subjects) ==
    IF subjects = <<>> THEN <<>>
    ELSE LET lectures == get_lectures(d, Head(subjects).id).ret
         IN [k \in 1 .. Len(lectures) |->
                [id |-> lectures[k].id, subject_id |-> Head(subjects).id,
                 subject_name |-> Head(subjects).name,
                 lecture_no |-> lectures[k].lecture_no, content |-> lectures[k].content]]
            \o ExportLectures(d, Tail(subjects))

\* the books of one type: get_books for id and name, get_book for the content
ExportBooks(d, book_type) ==
    LET books == OrderByName(get_books(d, book_type).ret)
    IN [k \in 1 .. Len(books) |->
           LET book_data == get_book(d, books[k].id).ret
           IN [id |-> books[k].id, name |-> books[k].name, type |-> book_type,
               content |-> (CHOOSE b \in book_data : TRUE).content]]

export_database_json_NoBooks(d) ==
    LET subjects == OrderByName(get_subjects(d).ret)
    IN [subjects |-> [k \in 1 .. Len(subjects) |->
                         [id |-> subjects[k].id, name |-> subjects[k].name]],
        lectures |-> ExportLectures(d, subjects),
        books |-> <<>>,
        export_timestamp |-> now]

export_database_json(d) ==
    LET subjects == OrderByName(get_subjects(d).ret)
    IN [subjects |-> [k \in 1 .. Len(subjects) |->
                         [id |-> subjects[k].id, name |-> subjects[k].name]],
        lectures |-> ExportLectures(d, subjects),
        books |-> ExportBooks(d, "ncert") \o ExportBooks(d, "upsc") \o ExportBooks(d, "other"),
        export_timestamp |-> now]

\* result of import_database_json before anything is imported; raised is the
\* exception that has left the loops ("none": none has)
NoResult(d) ==
    [db |-> d, subjects_imported |-> 0, lectures_imported |-> 0, books_imported |-> 0,
     errors |-> <<>>, raised |-> "none"]

\* result["errors"].append(...): the list, the position of the item, the message
Failed(acc, list, k, message) ==
    [acc EXCEPT !.errors = Append(@, [list |-> list, item |-> k, message |-> message])]

\* item k of import_data["subjects"]
ImportSubject(acc, item, k) ==
    IF "name" \notin DOMAIN item THEN acc
    ELSE IF IsNumber(item.name) THEN [acc EXCEPT !.raised = "AttributeError"]
    ELSE LET c == add_subject(acc.db, item.name)
         IN IF c.ret THEN [acc EXCEPT !.db = c.db, !.subjects_imported = @ + 1]
            ELSE Failed([acc EXCEPT !.db = c.db], "subjects", k, "exists_or_failed")

ImportLecture_AutoCreate(acc, item, k) ==
    IF ~ ({"subject_name", "lecture_no", "content"} \subseteq DOMAIN item) THEN acc
    ELSE LET made == add_subject(acc.db, item.subject_name)
             found == {x.id : x \in {y \in get_subjects(made.db).ret :
                                        y.name = strip(item.subject_name)}}
         IN IF found = {} THEN Failed(acc, "lectures", k, "subject_not_found")
            ELSE LET c == add_lecture(made.db, CHOOSE i \in found : TRUE,
                                      item.lecture_no, item.content)
                 IN IF c.ret THEN [acc EXCEPT !.db = c.db, !.lectures_imported = @ + 1]
                    ELSE Failed([acc EXCEPT !.db = c.db], "lectures", k, "failed")

\* item k of import_data["lectures"]: the subject is looked up by name in
\* get_subjects() as it is now
ImportLecture(acc, item, k) ==
    IF ~ ({"subject_name", "lecture_no", "content"} \subseteq DOMAIN item) THEN acc
    ELSE LET found == {x.id : x \in {y \in get_subjects(acc.db).ret :
                                        y.name = item.subject_name}}
         IN IF found = {} THEN Failed(acc, "lectures", k, "subject_not_found")
            ELSE IF \/ IsNumber(item.lecture_no)
                    \/ ~ IsBlank(item.lecture_no) /\ IsNumber(item.content)
                 THEN [acc EXCEPT !.raised = "AttributeError"]
            ELSE LET c == add_lecture(acc.db, CHOOSE i \in found : TRUE,
                                      item.lecture_no, item.content)
                 IN IF c.ret THEN [acc EXCEPT !.db = c.db, !.lectures_imported = @ + 1]
                    ELSE Failed([acc EXCEPT !.db = c.db], "lectures", k, "failed")

\* item k of import_data["books"]
ImportBook(acc, item, k) ==
    IF ~ ({"name", "type", "content"} \subseteq DOMAIN item) THEN acc
    ELSE IF IsNumber(item.name) \/ (~ IsBlank(item.name) /\ IsNumber(item.content))
         THEN [acc EXCEPT !.raised = "AttributeError"]
    ELSE LET c == add_book(acc.db, item.name, item.type, item.content)
         IN IF c.ret THEN [acc EXCEPT !.db = c.db, !.books_imported = @ + 1]
            ELSE Failed([acc EXCEPT !.db = c.db], "books", k, "failed")

\* the loop over one list, from item k on; an exception ends it
RECURSIVE ImportLoop(_, _, _, _)
ImportLoop(acc, import_data, list, k) ==
    IF list \notin DOMAIN import_data THEN acc
    ELSE IF k > Len(import_data[list]) \/ acc.raised # "none" THEN acc
    ELSE LET item == import_data[list][k]
             next == CASE list = "subjects" -> ImportSubject(acc, item, k)
                       [] list = "lectures" -> ImportLecture(acc, item, k)
                       [] list = "books" -> ImportBook(acc, item, k)
         IN ImportLoop(next, import_data, list, k + 1)

\* the three loops; except Exception: return {"error": str(e)}
import_database_json(d, import_data) ==
    LET r == ImportLoop(ImportLoop(ImportLoop(NoResult(d), import_data, "subjects", 1),
                                   import_data, "lectures", 1),
                        import_data, "books", 1)
    IN IF r.raised # "none" THEN Returns(r.db, [error |-> r.raised])
       ELSE Returns(r.db, [subjects_imported |-> r.subjects_imported,
                           lectures_imported |-> r.lectures_imported,
                           books_imported |-> r.books_imported,
                           errors |-> r.errors])

----------------------------------------------------------------------------
(* DatabaseManager: search *)

\* the upper-case letters of the model and their lower-case forms
UpperCase == <<"A", "E", "G", "H", "I", "K", "L", "M", "N", "P", "W">>
LowerCase == <<"a", "e", "g", "h", "i", "k", "l", "m", "n", "p", "w">>

\* str.lower() and SQL LOWER(), which agree on ASCII letters
lower(s) ==
    [k \in 1 .. Len(s) |->
        IF \E i \in 1 .. Len(UpperCase) : UpperCase[i] = s[k]
        THEN LowerCase[CHOOSE i \in 1 .. Len(UpperCase) : UpperCase[i] = s[k]]
        ELSE s[k]]

\* text LIKE pattern: "%" stands for any run of characters, "_" for any one
\* character, a letter for itself in either case
RECURSIVE Like(_, _)
Like(text, pattern) ==
    IF pattern = <<>> THEN text = <<>>
    ELSE IF Head(pattern) = "%"
         THEN Like(text, Tail(pattern)) \/ (text # <<>> /\ Like(Tail(text), pattern))
    ELSE /\ text # <<>>
         /\ Head(pattern) = "_" \/ lower(<<Head(pattern)>>) = lower(<<Head(text)>>)
         /\ Like(Tail(text), Tail(pattern))

\* row[3][:100] + "..." if len(row[3]) > 100 else row[3]
Preview(text) == IF Len(text) > 100 THEN SubSeq(text, 1, 100) \o <<".", ".", ".">> ELSE text

\* SELECT 'subject', id, name, name FROM subjects WHERE LOWER(name) LIKE ?
\* (the rows in the order of the index on name that SQLite scans)
SqlSearchSubjects(d, search_term) ==
    IF "subjects" \notin d.tables THEN Raised(d, "OperationalError")
    ELSE LET rows == OrderByName({x \in d.subjects : Like(lower(x.name), search_term)})
         IN Ran(d, 0, [k \in 1 .. Len(rows) |->
                          [kind |-> "subject", id |-> rows[k].id, title |-> rows[k].name,
                           preview |-> Preview(rows[k].name)]])

\* SELECT 'lecture', l.id, l.lecture_no, l.content FROM lectures l
\*   WHERE LOWER(l.lecture_no) LIKE ? OR LOWER(l.content) LIKE ?
SqlSearchLectures(d, search_term) ==
    IF "lectures" \notin d.tables THEN Raised(d, "OperationalError")
    ELSE LET rows == OrderById({l \in d.lectures :
                                   \/ Like(lower(l.lecture_no), search_term)
                                   \/ Like(lower(l.content), search_term)})
         IN Ran(d, 0, [k \in 1 .. Len(rows) |->
                          [kind |-> "lecture", id |-> rows[k].id,
                           title |-> rows[k].lecture_no,
                           preview |-> Preview(rows[k].content)]])

\* SELECT 'book', id, name, content FROM books
\*   WHERE LOWER(name) LIKE ? OR LOWER(content) LIKE ?
SqlSearchBooks(d, search_term) ==
    IF "books" \notin d.tables THEN Raised(d, "OperationalError")
    ELSE LET rows == OrderById({b \in d.books :
                                   \/ Like(lower(b.name), search_term)
                                   \/ Like(lower(b.content), search_term)})
         IN Ran(d, 0, [k \in 1 .. Len(rows) |->
                          [kind |-> "book", id |-> rows[k].id, title |-> rows[k].name,
                           preview |-> Preview(rows[k].content)]])

\* the storage statements a call of search_content executes
search_content_statements(query) ==
    IF IsBlank(query) THEN <<>>
    ELSE <<"search_subjects", "search_lectures", "search_books", "exit">>

\* search_term = f"%{query.strip().lower()}%"; except Exception: return []
search_content(d, query) ==
    IF IsBlank(query) THEN Returns(d, <<>>)
    ELSE LET search_term == <<"%">> \o lower(strip(query)) \o <<"%">>
             subjects == SqlSearchSubjects(d, search_term)
             lectures == SqlSearchLectures(d, search_term)
             books == SqlSearchBooks(d, search_term)
         IN IF subjects.err # "none" \/ lectures.err # "none" \/ books.err # "none"
            THEN Returns(d, <<>>)
            ELSE Returns(d, subjects.rows \o lectures.rows \o books.rows)

----------------------------------------------------------------------------
(* BotHandlers._clean_markdown.  re.sub(pattern, repl, s) tries the pattern *)
(* at every position from the left and goes on behind a match.             *)

IsSpace(ch) == ch = " "
IsUpper(ch) == \E i \in 1 .. Len(UpperCase) : UpperCase[i] = ch
IsDigit(ch) == ch \in {"0", "1", "2"}

\* the first position from i on where s has the character ch, 0 if none
IndexOf(s, ch, i) ==
    IF \E j \in i .. Len(s) : s[j] = ch
    THEN CHOOSE j \in i .. Len(s) : s[j] = ch /\ \A k \in i .. j - 1 : s[k] # ch
    ELSE 0

Largest(S) == CHOOSE x \in S : \A y \in S : y <= x

NoMatch == [end |-> 0, repl |-> <<>>]

\* f"__LINK_{n}__"
Placeholder(n) == <<"_", "_", "L", "I", "N", "K", "_", <<"0", "1", "2">>[n + 1], "_", "_">>

\* link_pattern = \[([^\]]+)\]\(([^)]+)\) at position i: the position of the
\* closing parenthesis, 0 if there is no match
LinkEnd(s, i) ==
    IF i > Len(s) \/ s[i] # "[" THEN 0
    ELSE LET j == IndexOf(s, "]", i + 1)
         IN IF j < i + 2 \/ j + 1 > Len(s) \/ s[j + 1] # "(" THEN 0
            ELSE LET k == IndexOf(s, ")", j + 2)
                 IN IF k < j + 3 THEN 0 ELSE k

\* [\1](\2)
AsLink(label, url) == <<"[">> \o label \o <<"]", "(">> \o url \o <<")">>

\* \[([^\]]+)\s+\(([^)]+)\)\] at position i: the label takes as much as it can
SpacedLinkAt(s, i) ==
    IF s[i] # "[" THEN NoMatch
    ELSE LET opens == {p \in i + 3 .. Len(s) :
                          /\ s[p] = "(" /\ IsSpace(s[p - 1])
                          /\ \A k \in i + 1 .. p - 1 : s[k] # "]"
                          /\ LET k == IndexOf(s, ")", p + 1)
                             IN k >= p + 2 /\ k + 1 <= Len(s) /\ s[k + 1] = "]"}
         IN IF opens = {} THEN NoMatch
            ELSE LET p == Largest(opens)
                     k == IndexOf(s, ")", p + 1)
                 IN [end |-> k + 1,
                     repl |-> AsLink(SubSeq(s, i + 1, p - 2), SubSeq(s, p + 1, k - 1))]

\* \[([^\]]+)\]\(([^)]+)\] at position i: the url takes as much as it can
BracketLinkAt(s, i) ==
    IF s[i] # "[" THEN NoMatch
    ELSE LET j == IndexOf(s, "]", i + 1)
         IN IF j < i + 2 \/ j + 1 > Len(s) \/ s[j + 1] # "(" THEN NoMatch
            ELSE LET close == IndexOf(s, ")", j + 2)
                     run == IF close = 0 THEN Len(s) ELSE close - 1
                     ends == {m \in j + 3 .. run : s[m] = "]"}
                 IN IF ends = {} THEN NoMatch
                    ELSE [end |-> Largest(ends),
                          repl |-> AsLink(SubSeq(s, i + 1, j - 1),
                                          SubSeq(s, j + 2, Largest(ends) - 1))]

\* ([A-Z\s]+)\s+\(([^)]+)\) at position i
CapsLinkAt(s, i) ==
    IF ~ (IsUpper(s[i]) \/ IsSpace(s[i])) THEN NoMatch
    ELSE LET p == CHOOSE q \in i + 1 .. Len(s) + 1 :
                      /\ \A k \in i .. q - 1 : IsUpper(s[k]) \/ IsSpace(s[k])
                      /\ q <= Len(s) => ~ (IsUpper(s[q]) \/ IsSpace(s[q]))
         IN IF p > Len(s) \/ s[p] # "(" \/ p < i + 2 \/ ~ IsSpace(s[p - 1]) THEN NoMatch
            ELSE LET k == IndexOf(s, ")", p + 1)
                 IN IF k < p + 2 THEN NoMatch
                    ELSE [end |-> k,
                          repl |-> AsLink(SubSeq(s, i, p - 2), SubSeq(s, p + 1, k - 1))]

\* (?<!__LINK_\d)X(?!X)(?!\d+__) at position i, for X the character ch
EscapeAt(s, i, ch) ==
    IF s[i] # ch THEN NoMatch
    ELSE IF /\ i > 8
            /\ SubSeq(s, i - 8, i - 2) = SubSeq(Placeholder(0), 1, 7)
            /\ IsDigit(s[i - 1])
         THEN NoMatch
    ELSE IF i < Len(s) /\ s[i + 1] = ch THEN NoMatch
    ELSE IF \E k \in i + 2 .. Len(s) - 1 :
               /\ \A j \in i + 1 .. k - 1 : IsDigit(s[j])
               /\ s[k] = "_" /\ s[k + 1] = "_"
         THEN NoMatch
    ELSE [end |-> i, repl |-> <<"\\", ch>>]

MatchAt(pattern, s, i) ==
    CASE pattern = "spaced_link" -> SpacedLinkAt(s, i)
      [] pattern = "bracket_link" -> BracketLinkAt(s, i)
      [] pattern = "caps_link" -> CapsLinkAt(s, i)
      [] pattern = "underscore" -> EscapeAt(s, i, "_")
      [] pattern = "star" -> EscapeAt(s, i, "*")

\* re.sub(pattern, repl, s) from position i on
RECURSIVE ReSub(_, _, _)
ReSub(pattern, s, i) ==
    IF i > Len(s) THEN <<>>
    ELSE LET m == MatchAt(pattern, s, i)
         IN IF m.end = 0 THEN <<s[i]>> \o ReSub(pattern, s, i + 1)
            ELSE m.repl \o ReSub(pattern, s, m.end + 1)

\* re.sub(link_pattern, store_link, content) from position i on, n links stored
RECURSIVE StoreLinks(_, _, _)
StoreLinks(s, i, n) ==
    IF i > Len(s) THEN [content |-> <<>>, links |-> <<>>]
    ELSE IF LinkEnd(s, i) = 0
         THEN LET rest == StoreLinks(s, i + 1, n)
              IN [content |-> <<s[i]>> \o rest.content, links |-> rest.links]
    ELSE LET rest == StoreLinks(s, LinkEnd(s, i) + 1, n + 1)
         IN [content |-> Placeholder(n) \o rest.content,
             links |-> <<SubSeq(s, i, LinkEnd(s, i))>> \o rest.links]

\* s.replace(old, new)
RECURSIVE Replace(_, _, _)
Replace(s, old, new) ==
    IF Len(s) < Len(old) THEN s
    ELSE IF SubSeq(s, 1, Len(old)) = old
         THEN new \o Replace(SubSeq(s, Len(old) + 1, Len(s)), old, new)
    ELSE <<Head(s)>> \o Replace(Tail(s), old, new)

\* for i, link in enumerate(links): content = content.replace(f"__LINK_{i}__", link)
RECURSIVE RestoreLinks(_, _, _)
RestoreLinks(content, links, i) ==
    IF i >= Len(links) THEN content
    ELSE RestoreLinks(Replace(content, Placeholder(i), links[i + 1]), links, i + 1)

_clean_markdown(content) ==
    LET stored == StoreLinks(content, 1, 0)
        fixed == ReSub("caps_link",
                       ReSub("bracket_link", ReSub("spaced_link", stored.content, 1), 1), 1)
        escaped == ReSub("star", ReSub("underscore", fixed, 1), 1)
    IN RestoreLinks(escaped, stored.links, 0)

----------------------------------------------------------------------------
(* Session store: BotHandlers.user_states, temp_data, state_timestamps *)

Users == {ADMIN_ID, 2}

\* config.BotState, and the three states the handlers name by literal
NORMAL == "normal"
ADDING_SUBJECT == "adding_subject"
ADDING_LECTURE_NUMBER == "adding_lecture_number"
ADDING_LECTURE_CONTENT == "adding_lecture_content"
EDITING_LECTURE == "editing_lecture"
RENAMING_SUBJECT == "renaming_subject"
ADDING_BOOK_NAME == "adding_book_name"
ADDING_BOOK_CONTENT == "adding_book_content"
EDITING_BOOK == "editing_book"
CHANGING_WELCOME == "changing_welcome"
SEARCHING_CONTENT == "SEARCHING_CONTENT"
SEARCHING_LECTURES == "SEARCHING_LECTURES"
IMPORTING_JSON == "IMPORTING_JSON"

CLEANUP_INTERVAL == 3600
STALE_AFTER == 7200

\* Python dict operations
EmptyDict == <<>>
DictSet(d, k, v) == [x \in (DOMAIN d) \cup {k} |-> IF x = k THEN v ELSE d[x]]
DictPop(d, k) == [x \in (DOMAIN d) \ {k} |-> d[x]]
DictGet(d, k, default) == IF k \in DOMAIN d THEN d[k] ELSE default

\* The handlers are written as functions of a world w: the session store, the
\* committed database, the welcome text, and what the handler answered.
\*   resp  the message the handler sent ("none": it sent nothing)
\*   ret   what the repository write of the handler returned, if it made one
\*   count imported_count of the import flow
World == [user_states |-> user_states, temp_data |-> temp_data,
          state_timestamps |-> state_timestamps, last_cleanup |-> last_cleanup,
          welcome |-> welcome, db |-> db,
          resp |-> "none", ret |-> "none", count |-> 0]

Reply(w, resp) == [w EXCEPT !.resp = resp]

Bool(b) == IF b THEN "True" ELSE "False"

\* the outcome c of a repository call taken into the world
AfterCall(w, c) == [w EXCEPT !.db = c.db]
AfterWrite(w, c) == [w EXCEPT !.db = c.db, !.ret = Bool(c.ret)]

_cleanup_old_states_KeepsScratch(w) ==
    IF now - w.last_cleanup < CLEANUP_INTERVAL THEN w
    ELSE LET cutoff_time == now - STALE_AFTER
             expired_users == {u \in DOMAIN w.state_timestamps :
                                  w.state_timestamps[u] < cutoff_time}
         IN [w EXCEPT
               !.user_states = [u \in (DOMAIN @) \ expired_users |-> @[u]],
               !.state_timestamps = [u \in (DOMAIN @) \ expired_users |-> @[u]],
               !.last_cleanup = now]

_cleanup_old_states_NoInterval(w) ==
    LET cutoff_time == now - STALE_AFTER
        expired_users == {u \in DOMAIN w.state_timestamps :
                             w.state_timestamps[u] < cutoff_time}
    IN [w EXCEPT
          !.user_states = [u \in (DOMAIN @) \ expired_users |-> @[u]],
          !.temp_data = [u \in (DOMAIN @) \ expired_users |-> @[u]],
          !.state_timestamps = [u \in (DOMAIN @) \ expired_users |-> @[u]],
          !.last_cleanup = now]

_cleanup_old_states(w) ==
    IF now - w.last_cleanup < CLEANUP_INTERVAL THEN w
    ELSE LET cutoff_time == now - STALE_AFTER
             expired_users == {u \in DOMAIN w.state_timestamps :
                                  w.state_timestamps[u] < cutoff_time}
         IN [w EXCEPT
               !.user_states = [u \in (DOMAIN @) \ expired_users |-> @[u]],
               !.temp_data = [u \in (DOMAIN @) \ expired_users |-> @[u]],
               !.state_timestamps = [u \in (DOMAIN @) \ expired_users |-> @[u]],
               !.last_cleanup = now]

_update_user_state_NoTimestamp(w, user_id, state) ==
    _cleanup_old_states([w EXCEPT !.user_states = DictSet(@, user_id, state)])

\* the sweep before the caller's timestamp is refreshed
_update_user_state_SweepFirst(w, user_id, state) ==
    [_cleanup_old_states(w) EXCEPT !.user_states = DictSet(@, user_id, state),
                                   !.state_timestamps = DictSet(@, user_id, now)]

_update_user_state(w, user_id, state) ==
    _cleanup_old_states([w EXCEPT !.user_states = DictSet(@, user_id, state),
                                  !.state_timestamps = DictSet(@, user_id, now)])

\* a reset that forgets the timestamp map
_reset_user_state_KeepsTimestamp(w, user_id) ==
    [w EXCEPT !.user_states = DictPop(@, user_id), !.temp_data = DictPop(@, user_id)]

_reset_user_state(w, user_id) ==
    [w EXCEPT !.user_states = DictPop(@, user_id),
              !.temp_data = DictPop(@, user_id),
              !.state_timestamps = DictPop(@, user_id)]

is_admin_everyone(user_id) == TRUE
is_admin(user_id) == user_id = ADMIN_ID

\* self.temp_data[user_id] = {key: value}
\* a flow start that writes no scratch mapping
SetTemp_Nothing(w, user_id, key, value) == w

SetTemp(w, user_id, key, value) ==
    [w EXCEPT !.temp_data = DictSet(@, user_id, DictSet(EmptyDict, key, value))]

----------------------------------------------------------------------------
(* Callback data.  A callback string is the sequence of its "_"-separated  *)
(* parts: "delete_subject_2" is <<"delete", "subject", "2">>.             *)

\* the ids the events of the model carry: a default subject and the first
\* subject added after the defaults; the first two lectures, the first two books
SubjectIds == {1, 7}
LectureIds == {1, 2}
BookIds == {1, 2}
Ids == SubjectIds \cup LectureIds \cup BookIds

IdTok(n) == ToString(n)

\* int(part): the number, or ValueError
IsInt(part) == \E n \in Ids : IdTok(n) = part
int(part) == CHOOSE n \in Ids : IdTok(n) = part

\* data.startswith(prefix + "_")
StartsWith(data, prefix) ==
    Len(data) > Len(prefix) /\ SubSeq(data, 1, Len(prefix)) = prefix

\* int(data.split("_")[k]) succeeds (k counted from 0)
HasIntAt(data, k) == Len(data) > k /\ IsInt(data[k + 1])
IntAt(data, k) == int(data[k + 1])

StaticData ==
    { <<"main", "menu">>, <<"lectures">>, <<"books">>,
      <<"ncert", "wallah">>, <<"upsc", "wallah">>, <<"other", "books">>,
      <<"admin", "settings">>, <<"enhanced", "admin">>,
      <<"add", "subject">>, <<"manage", "subjects">>, <<"manage", "lectures">>,
      <<"view", "all", "data">>, <<"database", "tools">>, <<"backup", "database">>,
      <<"optimize", "database">>, <<"reset", "database">>,
      <<"confirm", "reset", "database">>, <<"bot", "settings">>,
      <<"change", "welcome", "message">>, <<"view", "bot", "info">>,
      <<"user", "analytics">>, <<"manage", "books">>,
      <<"search", "content">>, <<"search", "lectures">>, <<"import", "json">>,
      \* sent by keyboards, handled nowhere
      <<"quick", "actions">>, <<"import", "export">>,
      \* sent by Keyboards.manage_lectures_menu
      <<"add", "lecture", "select", "subject">> }
    \cup { <<"manage", t, "books">> : t \in BookTypes }
    \cup { <<"add", t, "book">> : t \in BookTypes }

IdData ==
    UNION { { <<"subject", IdTok(i)>>, <<"add", "lecture", IdTok(i)>>,
              <<"manage", "lectures", "subject", IdTok(i)>>,
              <<"delete", "subject", IdTok(i)>>,
              <<"confirm", "delete", "subject", IdTok(i)>>,
              <<"rename", "subject", IdTok(i)>> } : i \in SubjectIds }
    \cup UNION { { <<"lecture", IdTok(i)>>, <<"delete", "lecture", IdTok(i)>>,
                   <<"confirm", "delete", "lecture", IdTok(i)>>,
                   <<"edit", "lecture", IdTok(i)>> } : i \in LectureIds }
    \cup { <<t, "book", IdTok(i)>> : t \in BookTypes, i \in BookIds }
    \cup { <<"delete", t, "book", IdTok(i)>> : t \in BookTypes, i \in BookIds }
    \cup { <<"confirm", "delete", t, "book", IdTok(i)>> : t \in BookTypes, i \in BookIds }
    \cup { <<"edit", t, "book", IdTok(i)>> : t \in BookTypes, i \in BookIds }

ButtonData == StaticData \cup IdData

----------------------------------------------------------------------------
(* BotHandlers: button callbacks *)

\* the name WELCOME_MESSAGE of bot_handlers: bound by "from config import
\* WELCOME_MESSAGE" when the module is loaded, and never assigned again
WELCOME_MESSAGE == DEFAULT_WELCOME

\* the text start_command and _show_main_menu send
WelcomeText(w) == WELCOME_MESSAGE

\* a main menu that ends the flow in progress
_show_main_menu_Resets(w) == Reply([w EXCEPT !.user_states = EmptyDict], "main_menu")

_show_main_menu(w) == Reply(w, "main_menu")

_show_subjects(w) == Reply(AfterCall(w, get_subjects(w.db)), "subjects_menu")

_show_lectures(w, subject_id) ==
    LET n == get_subject_name(w.db, subject_id)
    IN IF n.ret = {} THEN Reply(AfterCall(w, n), "subject_not_found")
       ELSE Reply(AfterCall(w, get_lectures(n.db, subject_id)), "lectures_menu")

_show_lecture_content(w, lecture_id) ==
    LET l == get_lecture(w.db, lecture_id)
    IN IF l.ret = {} THEN Reply(AfterCall(w, l), "lecture_not_found")
       ELSE Reply(AfterCall(w, l), "lecture_content")

_show_books(w) == Reply(w, "books_menu")

_show_book_list(w, book_type) ==
    Reply(AfterCall(w, get_books(w.db, book_type)), "book_list")

_show_book_content(w, book_id, book_type) ==
    LET b == get_book(w.db, book_id)
    IN IF b.ret = {} THEN Reply(AfterCall(w, b), "book_not_found")
       ELSE Reply(AfterCall(w, b), "book_content")

\* The requests a display handler makes to Telegram.  A request can fail for
\* reasons outside the program (a text Telegram cannot parse as Markdown, the
\* network): failing is the set of requests, counted from 1, that raise.
MARKDOWN == "Markdown"
PLAIN == "None"

Requests == 1 .. 4

Request(method, text, reply_markup, parse_mode) ==
    [method |-> method, text |-> text, reply_markup |-> reply_markup,
     parse_mode |-> parse_mode]

\* edit_message_text, and reply_text if the edit raised; False if both raised
_safe_edit_message(sent, failing, text, reply_markup, parse_mode) ==
    LET edited == Append(sent, Request("edit_message_text", text, reply_markup, parse_mode))
        replied == Append(edited, Request("reply_text", text, reply_markup, parse_mode))
    IN IF Len(edited) \notin failing THEN [sent |-> edited, ret |-> TRUE]
       ELSE [sent |-> replied, ret |-> Len(replied) \notin failing]

\* Keyboards: a keyboard is the set of the callback data of its buttons
\* (reply_markup=None is the empty set)
NoKeyboard == {}

main_menu(admin) ==
    { <<"lectures">>, <<"books">> }
    \cup (IF admin THEN { <<"admin", "settings">> } ELSE {})

subjects_menu(subjects, admin) ==
    { <<"subject", IdTok(s.id)>> : s \in subjects }
    \cup (IF admin THEN { <<"add", "subject">> } ELSE {})
    \cup { <<"main", "menu">> }

lectures_menu(subject_id, lectures, admin) ==
    { <<"lecture", IdTok(lectures[i].id)>> : i \in DOMAIN lectures }
    \cup (IF admin THEN { <<"add", "lecture", IdTok(subject_id)>> } ELSE {})
    \cup { <<"lectures">> }

lecture_view(subject_id) == { <<"subject", IdTok(subject_id)>>, <<"main", "menu">> }

admin_menu ==
    { <<"manage", "subjects">>, <<"manage", "books">>, <<"database", "tools">>,
      <<"bot", "settings">>, <<"user", "analytics">>, <<"view", "all", "data">>,
      <<"quick", "actions">>, <<"import", "export">>, <<"main", "menu">> }

manage_subjects(subjects) ==
    UNION { { <<"delete", "subject", IdTok(s.id)>>,
              <<"rename", "subject", IdTok(s.id)>> } : s \in subjects }
    \cup { <<"add", "subject">>, <<"admin", "settings">> }

manage_lectures_subjects(subjects) ==
    { <<"manage", "lectures", "subject", IdTok(s.id)>> : s \in subjects }
    \cup { <<"admin", "settings">> }

manage_lectures_list(subject_id, lectures) ==
    UNION { { <<"delete", "lecture", IdTok(lectures[i].id)>>,
              <<"edit", "lecture", IdTok(lectures[i].id)>> } : i \in DOMAIN lectures }
    \cup { <<"add", "lecture", IdTok(subject_id)>>, <<"manage", "lectures">> }

books_menu(admin) ==
    { <<"ncert", "wallah">>, <<"upsc", "wallah">>, <<"other", "books">> }
    \cup (IF admin THEN { <<"manage", "books">>, <<"add", "other", "book">> } ELSE {})
    \cup { <<"main", "menu">> }

\* ncert_wallah_menu, upsc_wallah_menu and other_books_menu
wallah_menu(book_type, books, admin) ==
    { <<book_type, "book", IdTok(b.id)>> : b \in books }
    \cup (IF admin THEN { <<"add", book_type, "book">> } ELSE {})
    \cup { <<"books">> }

book_view(book_type) ==
    { IF book_type \in {"ncert", "upsc"} THEN <<book_type, "wallah">>
      ELSE <<"other", "books">>,
      <<"main", "menu">> }

manage_books_menu ==
    { <<"manage", t, "books">> : t \in BookTypes }
    \cup { <<"add", t, "book">> : t \in BookTypes }
    \cup { <<"admin", "settings">> }

manage_book_list(books, book_type) ==
    UNION { { <<"delete", book_type, "book", IdTok(b.id)>>,
              <<"edit", book_type, "book", IdTok(b.id)>> } : b \in books }
    \cup { <<"add", book_type, "book">>, <<"manage", "books">> }

\* action is the action's name split at "_"
confirmation(action, item_id) ==
    { <<"confirm">> \o action \o <<IdTok(item_id)>>, <<"admin", "settings">> }

database_tools_menu ==
    { <<"backup", "database">>, <<"optimize", "database">>, <<"reset", "database">>,
      <<"admin", "settings">> }

bot_settings_menu ==
    { <<"change", "welcome", "message">>, <<"view", "bot", "info">>,
      <<"user", "analytics">>, <<"admin", "settings">> }

dangerous_confirmation(action) ==
    { <<"confirm">> \o action, <<"database", "tools">> }

admin_with_add_buttons ==
    { <<"add", "subject">>, <<"add", "ncert", "book">>, <<"add", "upsc", "book">>,
      <<"admin", "settings">>, <<"quick", "actions">>, <<"user", "analytics">>,
      <<"main", "menu">> }

\* second attempt of the display handlers, with the cleaned text again
PlainAttempt_Cleaned(first, failing, content, cleaned_content, reply_markup) ==
    IF first.ret THEN first.sent
    ELSE _safe_edit_message(first.sent, failing, cleaned_content, reply_markup, PLAIN).sent

\* if not success: the original content, no parse mode, the same keyboard
PlainAttempt(first, failing, content, cleaned_content, reply_markup) ==
    IF first.ret THEN first.sent
    ELSE _safe_edit_message(first.sent, failing, content, reply_markup, PLAIN).sent

\* cleaned text in Markdown mode, then the second attempt
ContentRequests(failing, content, cleaned_content, reply_markup) ==
    PlainAttempt(_safe_edit_message(<<>>, failing, cleaned_content, reply_markup, MARKDOWN),
                 failing, content, cleaned_content, reply_markup)

\* the requests of _show_lecture_content, for each set of failing requests
\* (the content is cleaned once, whatever fails later)
LectureRequests(d, lecture_id) ==
    LET l == get_lecture(d, lecture_id)
    IN IF l.ret = {}
       THEN [failing \in SUBSET Requests |->
                _safe_edit_message(<<>>, failing, <<"Lecture not found.">>, NoKeyboard, PLAIN).sent]
       ELSE CHOOSE sent \in
                {[failing \in SUBSET Requests |->
                     ContentRequests(failing, lecture.content, cleaned_content,
                                     lecture_view(lecture.subject_id))] :
                 lecture \in l.ret, cleaned_content \in {_clean_markdown(x.content) : x \in l.ret}} :
                TRUE

\* the requests of _show_book_content, for each set of failing requests
BookRequests(d, book_id, book_type) ==
    LET b == get_book(d, book_id)
    IN IF b.ret = {}
       THEN [failing \in SUBSET Requests |->
                _safe_edit_message(<<>>, failing, <<"Book not found.">>, NoKeyboard, PLAIN).sent]
       ELSE CHOOSE sent \in
                {[failing \in SUBSET Requests |->
                     ContentRequests(failing, book.content, cleaned_content,
                                     book_view(book_type))] :
                 book \in b.ret, cleaned_content \in {_clean_markdown(x.content) : x \in b.ret}} :
                TRUE

_show_admin_menu(w) == Reply(w, "admin_menu")

_show_enhanced_admin_menu(w) == Reply(w, "enhanced_admin_menu")

\* a confirmation prompt for a subject that deletes it already
_handle_delete_confirmation_Deletes(w, data, item_type) ==
    IF HasIntAt(data, 2) /\ item_type = "subject"
    THEN Reply(AfterWrite(w, delete_subject(w.db, IntAt(data, 2))), "confirm_delete_subject")
    ELSE Reply(w, "confirm_delete_lecture")

_handle_delete_confirmation(w, data, item_type) ==
    IF ~ HasIntAt(data, 2) THEN Reply(w, "error_loading_item")
    ELSE IF item_type = "subject"
         THEN IF get_subject_name(w.db, IntAt(data, 2)).ret # {}
              THEN Reply(w, "confirm_delete_subject") ELSE w
    ELSE IF get_lecture(w.db, IntAt(data, 2)).ret # {}
         THEN Reply(w, "confirm_delete_lecture") ELSE w

_handle_delete_subject(w, data) ==
    IF ~ HasIntAt(data, 3) THEN Reply(w, "error_deleting")
    ELSE LET c == delete_subject(w.db, IntAt(data, 3))
         IN IF c.exc # "none" THEN Reply(AfterCall(w, c), "error_deleting")
            ELSE Reply(AfterWrite(w, c), IF c.ret THEN "deleted" ELSE "delete_failed")

_handle_delete_lecture(w, data) ==
    IF ~ HasIntAt(data, 3) THEN Reply(w, "error_deleting")
    ELSE LET c == delete_lecture(w.db, IntAt(data, 3))
         IN IF c.exc # "none" THEN Reply(AfterCall(w, c), "error_deleting")
            ELSE Reply(AfterWrite(w, c), IF c.ret THEN "deleted" ELSE "delete_failed")

_handle_book_delete_confirmation(w, data) ==
    IF ~ HasIntAt(data, 3) THEN Reply(w, "error_loading_item")
    ELSE IF get_book(w.db, IntAt(data, 3)).ret # {}
         THEN Reply(w, "confirm_delete_book") ELSE w

_handle_delete_book(w, data) ==
    IF ~ HasIntAt(data, 4) THEN Reply(w, "error_deleting")
    ELSE LET c == delete_book(w.db, IntAt(data, 4))
         IN IF c.exc # "none" THEN Reply(AfterCall(w, c), "error_deleting")
            ELSE Reply(AfterWrite(w, c), IF c.ret THEN "deleted" ELSE "delete_failed")

_handle_reset_database(w) ==
    LET c == reset_database(w.db)
    IN Reply(AfterWrite(w, c), IF c.ret THEN "reset_done" ELSE "reset_failed")

\* "ncert" in data / "upsc" in data / else
BookTypeIn(data) ==
    IF \E k \in 1 .. Len(data) : data[k] = "ncert" THEN "ncert"
    ELSE IF \E k \in 1 .. Len(data) : data[k] = "upsc" THEN "upsc"
    ELSE "other"

BookPrefixes(verb) == { verb \o <<t, "book">> : t \in BookTypes }

_handle_admin_callback(w, user_id, data) ==
    IF data = <<"add", "subject">> THEN
        Reply(_update_user_state(w, user_id, ADDING_SUBJECT), "ask_subject_name")
    ELSE IF StartsWith(data, <<"add", "lecture">>) THEN
        IF ~ HasIntAt(data, 2) THEN Reply(w, "admin_error")
        ELSE Reply(SetTemp(_update_user_state(w, user_id, ADDING_LECTURE_NUMBER),
                           user_id, "subject_id", IntAt(data, 2)), "ask_lecture_number")
    ELSE IF data = <<"manage", "subjects">> THEN Reply(w, "manage_subjects")
    ELSE IF data = <<"manage", "lectures">> THEN Reply(w, "manage_lectures_subjects")
    ELSE IF StartsWith(data, <<"manage", "lectures", "subject">>) THEN
        IF ~ HasIntAt(data, 3) THEN Reply(w, "admin_error")
        ELSE Reply(w, "manage_lectures_list")
    ELSE IF data = <<"view", "all", "data">> THEN Reply(w, "all_data")
    ELSE IF data = <<"database", "tools">> THEN Reply(w, "database_tools")
    ELSE IF data = <<"backup", "database">> THEN Reply(w, "backup_sent")
    ELSE IF data = <<"optimize", "database">> THEN Reply(w, "optimized")
    ELSE IF data = <<"reset", "database">> THEN Reply(w, "confirm_reset")
    ELSE IF data = <<"confirm", "reset", "database">> THEN _handle_reset_database(w)
    ELSE IF data = <<"bot", "settings">> THEN Reply(w, "bot_settings")
    ELSE IF data = <<"change", "welcome", "message">> THEN
        Reply(_update_user_state(w, user_id, CHANGING_WELCOME), "ask_welcome")
    ELSE IF data = <<"view", "bot", "info">> THEN Reply(w, "bot_info")
    ELSE IF data = <<"user", "analytics">> THEN Reply(w, "analytics")
    ELSE IF StartsWith(data, <<"delete", "subject">>) THEN
        _handle_delete_confirmation(w, data, "subject")
    ELSE IF StartsWith(data, <<"confirm", "delete", "subject">>) THEN
        _handle_delete_subject(w, data)
    ELSE IF StartsWith(data, <<"delete", "lecture">>) THEN
        _handle_delete_confirmation(w, data, "lecture")
    ELSE IF StartsWith(data, <<"confirm", "delete", "lecture">>) THEN
        _handle_delete_lecture(w, data)
    ELSE IF StartsWith(data, <<"edit", "lecture">>) THEN
        IF ~ HasIntAt(data, 2) THEN Reply(w, "admin_error")
        ELSE Reply(SetTemp(_update_user_state(w, user_id, EDITING_LECTURE),
                           user_id, "lecture_id", IntAt(data, 2)), "ask_lecture_content")
    ELSE IF StartsWith(data, <<"rename", "subject">>) THEN
        IF ~ HasIntAt(data, 2) THEN Reply(w, "admin_error")
        ELSE Reply(SetTemp(_update_user_state(w, user_id, RENAMING_SUBJECT),
                           user_id, "subject_id", IntAt(data, 2)), "ask_new_name")
    ELSE IF data = <<"manage", "books">> THEN Reply(w, "manage_books")
    ELSE IF data \in { <<"manage", t, "books">> : t \in BookTypes } THEN
        Reply(w, "manage_book_list")
    ELSE IF data \in { <<"add", t, "book">> : t \in BookTypes } THEN
        Reply(SetTemp(_update_user_state(w, user_id, ADDING_BOOK_NAME),
                      user_id, "book_type", BookTypeIn(data)), "ask_book_name")
    ELSE IF \E p \in BookPrefixes(<<"delete">>) : StartsWith(data, p) THEN
        _handle_book_delete_confirmation(w, data)
    ELSE IF \E p \in BookPrefixes(<<"confirm", "delete">>) : StartsWith(data, p) THEN
        _handle_delete_book(w, data)
    ELSE IF \E p \in BookPrefixes(<<"edit">>) : StartsWith(data, p) THEN
        IF ~ HasIntAt(data, 3) THEN Reply(w, "admin_error")
        ELSE Reply(SetTemp(_update_user_state(w, user_id, EDITING_BOOK),
                           user_id, "book_id", IntAt(data, 3)), "ask_book_content")
    ELSE IF data = <<"search", "content">> THEN
        Reply(_update_user_state(w, user_id, SEARCHING_CONTENT), "ask_search")
    ELSE IF data = <<"search", "lectures">> THEN
        Reply(_update_user_state(w, user_id, SEARCHING_LECTURES), "ask_search")
    ELSE IF data = <<"import", "json">> THEN
        Reply(_update_user_state(w, user_id, IMPORTING_JSON), "ask_json")
    ELSE w

button_callback(w, user_id, data) ==
    IF data = <<"main", "menu">> THEN _show_main_menu(w)
    ELSE IF data = <<"lectures">> THEN _show_subjects(w)
    ELSE IF data = <<"books">> THEN _show_books(w)
    ELSE IF StartsWith(data, <<"subject">>) THEN
        IF ~ HasIntAt(data, 1) THEN Reply(w, "error")
        ELSE _show_lectures(w, IntAt(data, 1))
    ELSE IF StartsWith(data, <<"lecture">>) THEN
        IF ~ HasIntAt(data, 1) THEN Reply(w, "error")
        ELSE _show_lecture_content(w, IntAt(data, 1))
    ELSE IF data = <<"ncert", "wallah">> THEN _show_book_list(w, "ncert")
    ELSE IF data = <<"upsc", "wallah">> THEN _show_book_list(w, "upsc")
    ELSE IF StartsWith(data, <<"ncert", "book">>) THEN
        IF ~ HasIntAt(data, 2) THEN Reply(w, "error")
        ELSE _show_book_content(w, IntAt(data, 2), "ncert")
    ELSE IF StartsWith(data, <<"upsc", "book">>) THEN
        IF ~ HasIntAt(data, 2) THEN Reply(w, "error")
        ELSE _show_book_content(w, IntAt(data, 2), "upsc")
    ELSE IF data = <<"other", "books">> THEN _show_book_list(w, "other")
    ELSE IF StartsWith(data, <<"other", "book">>) THEN
        IF ~ HasIntAt(data, 2) THEN Reply(w, "error")
        ELSE _show_book_content(w, IntAt(data, 2), "other")
    ELSE IF data = <<"admin", "settings">> /\ is_admin(user_id) THEN _show_admin_menu(w)
    ELSE IF data = <<"enhanced", "admin">> /\ is_admin(user_id) THEN _show_enhanced_admin_menu(w)
    ELSE IF is_admin(user_id) THEN _handle_admin_callback(w, user_id, data)
    ELSE Reply(w, "access_denied")

----------------------------------------------------------------------------
(* BotHandlers: free text *)

\* The JSON texts of the model use a compact syntax: a list is "[" items "]",
\* an item is "{" s n c "}" where the characters s, n, c are the values of
\* subject_name, lecture_no and content ("0": the key is missing); "{}" is an
\* object.  Any other text is not JSON.
Field(ch) == IF ch = "0" THEN <<>> ELSE <<ch>>

RECURSIVE IsItems(_)
\* the text between the brackets is a run of items
IsItems(body) ==
    body = <<>>
    \/ (/\ Len(body) >= 5 /\ body[1] = "{" /\ body[5] = "}"
        /\ \A k \in 2 .. 4 : body[k] \notin {"{", "}", "[", "]"}
        /\ IsItems(SubSeq(body, 6, Len(body))))

RECURSIVE ParseItems(_)
ParseItems(body) ==
    IF body = <<>> THEN <<>>
    ELSE <<[subject_name |-> Field(body[2]), lecture_no |-> Field(body[3]),
            content |-> Field(body[4])]>> \o ParseItems(SubSeq(body, 6, Len(body)))

\* json.loads(text): kind is "list", "object" or "invalid" (JSONDecodeError)
json_loads(text) ==
    IF text = <<"{", "}">> THEN [kind |-> "object", items |-> <<>>]
    ELSE IF Len(text) >= 2 /\ text[1] = "[" /\ text[Len(text)] = "]"
              /\ IsItems(SubSeq(text, 2, Len(text) - 1))
         THEN [kind |-> "list", items |-> ParseItems(SubSeq(text, 2, Len(text) - 1))]
    ELSE [kind |-> "invalid", items |-> <<>>]

\* the texts users send
PlainTexts == { <<" ">>, <<" ", "a">> }
JsonTexts == { <<"[", "]">>, <<"{", "}">>,
               <<"[", "{", "G", "a", "G", "}", "]">>,
               <<"[", "{", "a", "a", " ", "}", "{", "a", "G", "a", "}", "]">>,
               <<"[", "{", "0", "a", "a", "}", "]">> }
Texts == PlainTexts \cup JsonTexts

_handle_add_subject_KeepsSession(w, user_id, subject_name) ==
    LET c == add_subject(w.db, subject_name)
    IN IF c.exc # "none" THEN Reply(AfterCall(w, c), "error_adding")
       ELSE IF c.ret THEN Reply(AfterWrite(w, c), "added")
       ELSE Reply(AfterWrite(w, c), "add_failed")

_handle_add_subject(w, user_id, subject_name) ==
    LET c == add_subject(w.db, subject_name)
    IN IF c.exc # "none" THEN Reply(AfterCall(w, c), "error_adding")
       ELSE IF c.ret THEN Reply(_reset_user_state(AfterWrite(w, c), user_id), "added")
       ELSE Reply(AfterWrite(w, c), "add_failed")

\* no try block: a KeyError reaches handle_text_message
_handle_add_lecture_number(w, user_id, lecture_no) ==
    IF user_id \notin DOMAIN w.temp_data THEN Reply(w, "error")
    ELSE Reply(_update_user_state(
                  [w EXCEPT !.temp_data[user_id] = DictSet(@, "lecture_no", lecture_no)],
                  user_id, ADDING_LECTURE_CONTENT), "ask_lecture_content")

_handle_add_lecture_content_NoReset(w, user_id, content) ==
    LET temp == DictGet(w.temp_data, user_id, EmptyDict)
    IN IF "subject_id" \in DOMAIN temp /\ "lecture_no" \in DOMAIN temp
       THEN LET c == add_lecture(w.db, temp["subject_id"], temp["lecture_no"], content)
            IN IF c.exc # "none" THEN Reply(AfterCall(w, c), "error_adding")
               ELSE IF c.ret THEN Reply(_reset_user_state(AfterWrite(w, c), user_id), "added")
               ELSE Reply(AfterWrite(w, c), "add_failed")
       ELSE Reply(w, "session_expired")

_handle_add_lecture_content(w, user_id, content) ==
    LET temp == DictGet(w.temp_data, user_id, EmptyDict)
    IN IF "subject_id" \in DOMAIN temp /\ "lecture_no" \in DOMAIN temp
       THEN LET c == add_lecture(w.db, temp["subject_id"], temp["lecture_no"], content)
            IN IF c.exc # "none" THEN Reply(AfterCall(w, c), "error_adding")
               ELSE IF c.ret THEN Reply(_reset_user_state(AfterWrite(w, c), user_id), "added")
               ELSE Reply(AfterWrite(w, c), "add_failed")
       ELSE Reply(_reset_user_state(w, user_id), "session_expired")

_handle_edit_lecture(w, user_id, content) ==
    LET temp == DictGet(w.temp_data, user_id, EmptyDict)
    IN IF "lecture_id" \in DOMAIN temp
       THEN LET c == update_lecture(w.db, temp["lecture_id"], content)
            IN IF c.exc # "none" THEN Reply(AfterCall(w, c), "error_updating")
               ELSE IF c.ret THEN Reply(_reset_user_state(AfterWrite(w, c), user_id), "updated")
               ELSE Reply(AfterWrite(w, c), "update_failed")
       ELSE Reply(_reset_user_state(w, user_id), "session_expired")

_handle_rename_subject(w, user_id, new_name) ==
    LET temp == DictGet(w.temp_data, user_id, EmptyDict)
    IN IF "subject_id" \in DOMAIN temp
       THEN LET c == rename_subject(w.db, temp["subject_id"], new_name)
            IN IF c.exc # "none" THEN Reply(AfterCall(w, c), "error_renaming")
               ELSE IF c.ret THEN Reply(_reset_user_state(AfterWrite(w, c), user_id), "renamed")
               ELSE Reply(AfterWrite(w, c), "rename_failed")
       ELSE Reply(_reset_user_state(w, user_id), "session_expired")

_handle_add_book_name_ToLectureContent(w, user_id, book_name) ==
    IF user_id \notin DOMAIN w.temp_data THEN Reply(w, "error")
    ELSE LET w1 == _update_user_state(
                      [w EXCEPT !.temp_data[user_id] = DictSet(@, "book_name", book_name)],
                      user_id, ADDING_LECTURE_CONTENT)
         IN IF user_id \notin DOMAIN w1.temp_data
               \/ "book_type" \notin DOMAIN w1.temp_data[user_id]
            THEN Reply(w1, "error")
            ELSE Reply(w1, "ask_book_content")

\* no try block: a KeyError reaches handle_text_message, the second one after
\* the state has moved on
_handle_add_book_name(w, user_id, book_name) ==
    IF user_id \notin DOMAIN w.temp_data THEN Reply(w, "error")
    ELSE LET w1 == _update_user_state(
                      [w EXCEPT !.temp_data[user_id] = DictSet(@, "book_name", book_name)],
                      user_id, ADDING_BOOK_CONTENT)
         IN IF user_id \notin DOMAIN w1.temp_data
               \/ "book_type" \notin DOMAIN w1.temp_data[user_id]
            THEN Reply(w1, "error")
            ELSE Reply(w1, "ask_book_content")

_handle_add_book_content(w, user_id, content) ==
    LET temp == DictGet(w.temp_data, user_id, EmptyDict)
    IN IF "book_type" \in DOMAIN temp /\ "book_name" \in DOMAIN temp
       THEN LET c == add_book(w.db, temp["book_name"], temp["book_type"], content)
            IN IF c.exc # "none" THEN Reply(AfterCall(w, c), "error_adding")
               ELSE IF c.ret THEN Reply(_reset_user_state(AfterWrite(w, c), user_id), "added")
               ELSE Reply(AfterWrite(w, c), "add_failed")
       ELSE Reply(_reset_user_state(w, user_id), "session_expired")

_handle_edit_book_ResetsOnFailure(w, user_id, content) ==
    LET temp == DictGet(w.temp_data, user_id, EmptyDict)
    IN IF "book_id" \in DOMAIN temp
       THEN LET c == update_book(w.db, temp["book_id"], content)
            IN IF c.exc # "none" THEN Reply(AfterCall(w, c), "error_updating")
               ELSE IF c.ret THEN Reply(_reset_user_state(AfterWrite(w, c), user_id), "updated")
               ELSE Reply(_reset_user_state(AfterWrite(w, c), user_id), "update_failed")
       ELSE Reply(_reset_user_state(w, user_id), "session_expired")

_handle_edit_book(w, user_id, content) ==
    LET temp == DictGet(w.temp_data, user_id, EmptyDict)
    IN IF "book_id" \in DOMAIN temp
       THEN LET c == update_book(w.db, temp["book_id"], content)
            IN IF c.exc # "none" THEN Reply(AfterCall(w, c), "error_updating")
               ELSE IF c.ret THEN Reply(_reset_user_state(AfterWrite(w, c), user_id), "updated")
               ELSE Reply(AfterWrite(w, c), "update_failed")
       ELSE Reply(_reset_user_state(w, user_id), "session_expired")

_handle_change_welcome_message(w, user_id, new_message) ==
    Reply(_reset_user_state([w EXCEPT !.welcome = strip(new_message)], user_id),
          "welcome_updated")

_handle_search_content_input(w, user_id, search_query) ==
    Reply(_reset_user_state(w, user_id), "search_results")

_handle_search_lectures_input(w, user_id, search_query) ==
    Reply(_reset_user_state(w, user_id), "search_results")

\* one item of the import loop: d is the committed image, n imported_count
ImportItem(acc, item) ==
    IF item.subject_name # <<>> /\ item.lecture_no # <<>> /\ item.content # <<>>
    THEN LET found == get_subject_id(acc.db, item.subject_name)
             \* subject_id = self.db.add_subject(subject_name): a bool, which
             \* SQLite binds as the integer 1 (True) or 0 (False)
             made  == IF found.ret = {} THEN add_subject(found.db, item.subject_name)
                      ELSE Returns(found.db, FALSE)
             subject_id == IF found.ret # {} THEN CHOOSE i \in found.ret : TRUE
                           ELSE IF made.ret THEN 1 ELSE 0
         IN IF subject_id # 0
            THEN LET c == add_lecture(made.db, subject_id, item.lecture_no, item.content)
                 IN [db |-> c.db, n |-> IF c.ret THEN acc.n + 1 ELSE acc.n]
            ELSE [db |-> made.db, n |-> acc.n]
    ELSE acc

RECURSIVE ImportItems(_, _)
ImportItems(acc, items) ==
    IF items = <<>> THEN acc
    ELSE ImportItems(ImportItem(acc, Head(items)), Tail(items))

_handle_import_json_file(w, user_id, file_content) ==
    LET data == json_loads(file_content)
    IN IF data.kind = "invalid" THEN Reply(w, "invalid_json")
       ELSE IF data.kind # "list" THEN Reply(w, "invalid_structure")
       ELSE LET r == ImportItems([db |-> w.db, n |-> 0], data.items)
            IN Reply(_reset_user_state([w EXCEPT !.db = r.db, !.count = r.n], user_id),
                     "imported")

handle_text_message_DefaultAddingSubject(w, user_id, text) ==
    IF ~ is_admin(user_id) THEN Reply(w, "buttons_only")
    ELSE LET state == DictGet(w.user_states, user_id, ADDING_SUBJECT)
         IN CASE state = ADDING_SUBJECT -> _handle_add_subject(w, user_id, text)
              [] state = ADDING_LECTURE_NUMBER -> _handle_add_lecture_number(w, user_id, text)
              [] state = ADDING_LECTURE_CONTENT -> _handle_add_lecture_content(w, user_id, text)
              [] state = EDITING_LECTURE -> _handle_edit_lecture(w, user_id, text)
              [] state = RENAMING_SUBJECT -> _handle_rename_subject(w, user_id, text)
              [] state = ADDING_BOOK_NAME -> _handle_add_book_name(w, user_id, text)
              [] state = ADDING_BOOK_CONTENT -> _handle_add_book_content(w, user_id, text)
              [] state = EDITING_BOOK -> _handle_edit_book(w, user_id, text)
              [] state = CHANGING_WELCOME -> _handle_change_welcome_message(w, user_id, text)
              [] state = SEARCHING_CONTENT -> _handle_search_content_input(w, user_id, text)
              [] state = SEARCHING_LECTURES -> _handle_search_lectures_input(w, user_id, text)
              [] state = IMPORTING_JSON -> _handle_import_json_file(w, user_id, text)
              [] OTHER -> Reply(w, "use_buttons")

handle_text_message(w, user_id, text) ==
    IF ~ is_admin(user_id) THEN Reply(w, "buttons_only")
    ELSE LET state == DictGet(w.user_states, user_id, NORMAL)
         IN CASE state = ADDING_SUBJECT -> _handle_add_subject(w, user_id, text)
              [] state = ADDING_LECTURE_NUMBER -> _handle_add_lecture_number(w, user_id, text)
              [] state = ADDING_LECTURE_CONTENT -> _handle_add_lecture_content(w, user_id, text)
              [] state = EDITING_LECTURE -> _handle_edit_lecture(w, user_id, text)
              [] state = RENAMING_SUBJECT -> _handle_rename_subject(w, user_id, text)
              [] state = ADDING_BOOK_NAME -> _handle_add_book_name(w, user_id, text)
              [] state = ADDING_BOOK_CONTENT -> _handle_add_book_content(w, user_id, text)
              [] state = EDITING_BOOK -> _handle_edit_book(w, user_id, text)
              [] state = CHANGING_WELCOME -> _handle_change_welcome_message(w, user_id, text)
              [] state = SEARCHING_CONTENT -> _handle_search_content_input(w, user_id, text)
              [] state = SEARCHING_LECTURES -> _handle_search_lectures_input(w, user_id, text)
              [] state = IMPORTING_JSON -> _handle_import_json_file(w, user_id, text)
              [] OTHER -> Reply(w, "use_buttons")

start_command_NoReset(w, user_id) == Reply(w, "welcome")

start_command(w, user_id) == Reply(_reset_user_state(w, user_id), "welcome")

\* the keyboard of the reply a handler made: w is the world the handler left,
\* data the callback data of the button pressed (<<>> for a command or a text)
ReplyMarkup(w, user_id, data) ==
    LET resp == w.resp
        admin == is_admin(user_id)
        pressed == data # <<>>
    IN IF resp \in {"welcome", "main_menu"} THEN main_menu(admin)
       ELSE IF resp = "subjects_menu" THEN subjects_menu(get_subjects(w.db).ret, admin)
       ELSE IF resp = "lectures_menu" THEN
           lectures_menu(IntAt(data, 1), get_lectures(w.db, IntAt(data, 1)).ret, admin)
       ELSE IF resp = "lecture_content" THEN
           UNION { lecture_view(l.subject_id) : l \in get_lecture(w.db, IntAt(data, 1)).ret }
       ELSE IF resp = "books_menu" THEN books_menu(admin)
       ELSE IF resp = "book_list" THEN
           LET book_type == IF data = <<"other", "books">> THEN "other" ELSE data[1]
           IN wallah_menu(book_type, get_books(w.db, book_type).ret, admin)
       ELSE IF resp = "book_content" THEN book_view(data[1])
       ELSE IF resp = "admin_menu" THEN admin_menu
       ELSE IF resp = "enhanced_admin_menu" THEN admin_with_add_buttons
       ELSE IF resp \in {"ask_subject_name", "ask_lecture_number", "ask_book_name"}
           THEN main_menu(TRUE)
       ELSE IF resp = "manage_subjects" THEN manage_subjects(get_subjects(w.db).ret)
       ELSE IF resp = "manage_lectures_subjects"
           THEN manage_lectures_subjects(get_subjects(w.db).ret)
       ELSE IF resp = "manage_lectures_list" THEN
           manage_lectures_list(IntAt(data, 3), get_lectures(w.db, IntAt(data, 3)).ret)
       ELSE IF resp \in {"database_tools", "backup_sent", "optimized"}
           THEN database_tools_menu
       ELSE IF resp = "confirm_reset" THEN dangerous_confirmation(<<"reset", "database">>)
       ELSE IF resp \in {"bot_settings", "bot_info"} THEN bot_settings_menu
       ELSE IF resp \in {"confirm_delete_subject", "confirm_delete_lecture"} THEN
           confirmation(SubSeq(data, 1, 2), IntAt(data, 2))
       ELSE IF resp = "confirm_delete_book" THEN
           confirmation(SubSeq(data, 1, 3), IntAt(data, 3))
       ELSE IF resp \in {"deleted", "delete_failed"} THEN
           IF Len(data) = 5 THEN manage_books_menu ELSE admin_menu
       ELSE IF resp = "manage_books" THEN manage_books_menu
       ELSE IF resp = "manage_book_list" THEN
           manage_book_list(get_books(w.db, data[2]).ret, data[2])
       ELSE IF resp = "ask_book_content" THEN
           IF pressed THEN manage_books_menu ELSE main_menu(TRUE)
       ELSE IF resp = "ask_lecture_content" THEN
           IF pressed THEN admin_menu ELSE main_menu(TRUE)
       ELSE IF resp \in {"all_data", "analytics", "reset_done", "reset_failed",
                         "ask_welcome", "ask_new_name", "ask_search", "ask_json",
                         "welcome_updated", "search_results", "invalid_json",
                         "invalid_structure", "imported"}
           THEN admin_menu
       ELSE IF resp \in {"added", "add_failed", "updated", "update_failed", "renamed",
                         "rename_failed", "session_expired", "use_buttons"}
           THEN main_menu(TRUE)
       ELSE NoKeyboard

----------------------------------------------------------------------------
(* The bot: one handler at a time (Application.run_polling) *)

WithinBounds(d) ==
    /\ d.seq.subjects <= MaxSubjectId
    /\ d.seq.lectures <= MaxLectureId
    /\ d.seq.books <= MaxBookId

\* the world a handler leaves becomes the next state
Becomes(w) ==
    /\ steps < MaxEvents
    /\ steps' = steps + 1
    \* the handler runs once: left is the world it leaves
    /\ \E left \in {w} :
          /\ WithinBounds(left.db)
          /\ user_states' = left.user_states
          /\ temp_data' = left.temp_data
          /\ state_timestamps' = left.state_timestamps
          /\ last_cleanup' = left.last_cleanup
          /\ welcome' = left.welcome
          /\ db' = left.db
    /\ UNCHANGED <<now, repoVars, histVars>>

NoThread == "none"
Threads == {"t1", "t2"}

\* self._local.conn of a thread: open (it exists), tx (sqlite3's in_transaction)
\* and view, the image the open transaction works on
NoConn == [open |-> FALSE, tx |-> FALSE, view |-> EmptyDb]

\* a thread that has called nothing yet (the fields are explained at Call)
Idle == [op |-> "idle", at |-> "idle", pc |-> 0, id |-> 0, err |-> "none",
         val |-> "none", ret |-> "none", exc |-> "none",
         ran |-> 0, locked |-> FALSE, kept |-> FALSE]

\* main(): DatabaseManager().init_database() on a new file, BotHandlers(db_manager);
\* threads are the threads that will call the DatabaseManager beside the event loop
Start(threads) ==
    /\ user_states = EmptyDict
    /\ temp_data = EmptyDict
    /\ state_timestamps = EmptyDict
    /\ last_cleanup = 0
    /\ now = 0
    /\ welcome = DEFAULT_WELCOME
    /\ db = init_database(EmptyDb).db
    /\ steps = 0
    /\ faults = 0
    /\ conn = [t \in threads |-> NoConn]
    /\ wlock = NoThread
    /\ th = [t \in threads |-> Idle]
    /\ shown = {}

Init == Start({})

StartCommand(u) == Becomes(start_command(World, u))

ButtonCallback(u, data) == Becomes(button_callback(World, u, data))

\* JSON texts are sent only to a session that waits for an import
HandleTextMessage(u, text) ==
    /\ text \in JsonTexts => DictGet(user_states, u, NORMAL) = IMPORTING_JSON
    /\ Becomes(handle_text_message(World, u, text))

Next ==
    \/ \E u \in Users : StartCommand(u)
    \/ \E u \in Users, data \in ButtonData : ButtonCallback(u, data)
    \/ \E u \in Users, text \in Texts : HandleTextMessage(u, text)

Spec == Init /\ [][Next]_vars

\* the administrator's events alone: the events of the other users change
\* nothing but the number of events (C1), so the same states are reached
NextAdmin ==
    \/ StartCommand(ADMIN_ID)
    \/ \E data \in ButtonData : ButtonCallback(ADMIN_ID, data)
    \/ \E text \in Texts : HandleTextMessage(ADMIN_ID, text)

SpecAdmin == Init /\ [][NextAdmin]_vars

----------------------------------------------------------------------------
(* The session store on its own: its operations in any order, for any user *)

\* the clock advances by half a cleanup interval
TickSeconds == CLEANUP_INTERVAL \div 2

\* the states _update_user_state is called with
FlowStates ==
    { ADDING_SUBJECT, ADDING_LECTURE_NUMBER, ADDING_LECTURE_CONTENT, EDITING_LECTURE,
      RENAMING_SUBJECT, ADDING_BOOK_NAME, ADDING_BOOK_CONTENT, EDITING_BOOK,
      CHANGING_WELCOME, SEARCHING_CONTENT, SEARCHING_LECTURES, IMPORTING_JSON }

\* the buttons that start a flow
StartFlowData ==
    { <<"add", "subject">>, <<"change", "welcome", "message">>,
      <<"search", "content">>, <<"search", "lectures">>, <<"import", "json">> }
    \cup { <<"add", "lecture", IdTok(i)>> : i \in SubjectIds }
    \cup { <<"rename", "subject", IdTok(i)>> : i \in SubjectIds }
    \cup { <<"edit", "lecture", IdTok(i)>> : i \in LectureIds }
    \cup { <<"add", t, "book">> : t \in BookTypes }
    \cup { <<"edit", t, "book", IdTok(i)>> : t \in BookTypes, i \in BookIds }

\* the world an operation leaves becomes the next state
StoreBecomes(w) ==
    /\ steps < MaxOperations
    /\ steps' = steps + 1
    \* the handler runs once: left is the world it leaves
    /\ \E left \in {w} :
          /\ WithinBounds(left.db)
          /\ user_states' = left.user_states
          /\ temp_data' = left.temp_data
          /\ state_timestamps' = left.state_timestamps
          /\ last_cleanup' = left.last_cleanup
          /\ welcome' = left.welcome
          /\ db' = left.db
    /\ UNCHANGED <<now, repoVars, histVars>>

\* the calls of _update_user_state: the administrator's flows, and one session
\* of another user for the administrator's calls to sweep
SetStateCalls ==
    { <<ADMIN_ID, state>> : state \in FlowStates } \cup { <<2, EDITING_LECTURE>> }

\* the scratch mappings written: self.temp_data[user_id] = {key: value}
ScratchWrites ==
    { <<ADMIN_ID, "subject_id", 1>>, <<ADMIN_ID, "lecture_id", 1>>,
      <<ADMIN_ID, "book_id", 1>>, <<ADMIN_ID, "book_type", "ncert">>,
      <<2, "lecture_id", 1>> }

SetState(u, state) == StoreBecomes(_update_user_state(World, u, state))

SetScratch(u, key, value) == StoreBecomes(SetTemp(World, u, key, value))

Reset(u) == StoreBecomes(_reset_user_state(World, u))

Text(u, text) == StoreBecomes(handle_text_message(World, u, text))

\* time.time() moves on
Tick ==
    /\ now < MaxTicks * TickSeconds
    /\ now' = now + TickSeconds
    /\ UNCHANGED <<user_states, temp_data, state_timestamps, last_cleanup, welcome,
                   db, steps, repoVars, histVars>>

NextSession ==
    \/ \E c \in SetStateCalls : SetState(c[1], c[2])
    \/ \E c \in ScratchWrites : SetScratch(c[1], c[2], c[3])
    \/ \E u \in Users : Reset(u)
    \/ \E text \in PlainTexts : Text(ADMIN_ID, text)

SpecSession == Init /\ [][NextSession]_vars

\* the session store while time passes: the administrator's session with or
\* without scratch data, a session of another user, and the clock
NextClock ==
    \/ \E c \in SetStateCalls : SetState(c[1], c[2])
    \/ \E c \in {x \in ScratchWrites : x[2] = "lecture_id"} : SetScratch(c[1], c[2], c[3])
    \/ \E u \in Users : Reset(u)
    \/ Tick

SpecClock == Init /\ [][NextClock]_vars

\* the bot's handlers while time passes: /start from anyone, the
\* administrator's buttons and texts, and the clock
Command(u) == StoreBecomes(start_command(World, u))

Press(u, data) == StoreBecomes(button_callback(World, u, data))

NextFlows ==
    \/ \E u \in Users : Command(u)
    \/ \E data \in ButtonData : Press(ADMIN_ID, data)
    \/ \E text \in PlainTexts : Text(ADMIN_ID, text)
    \/ Tick

SpecFlows == Init /\ [][NextFlows]_vars

\* the administrator's chat: /start, the buttons of the keyboards the bot has
\* displayed so far, and texts; shown records the buttons displayed
Displays(w, data) ==
    /\ steps < MaxPresses
    /\ steps' = steps + 1
    \* the handler runs once: left is the world it leaves
    /\ \E left \in {w} :
          /\ WithinBounds(left.db)
          /\ user_states' = left.user_states
          /\ temp_data' = left.temp_data
          /\ state_timestamps' = left.state_timestamps
          /\ last_cleanup' = left.last_cleanup
          /\ welcome' = left.welcome
          /\ db' = left.db
          /\ shown' = shown \cup ReplyMarkup(left, ADMIN_ID, data)
    /\ UNCHANGED <<now, repoVars>>

AdminStart == Displays(start_command(World, ADMIN_ID), <<>>)

AdminPress(data) ==
    /\ data \in shown
    /\ Displays(button_callback(World, ADMIN_ID, data), data)

AdminText(text) ==
    /\ text \in JsonTexts => DictGet(user_states, ADMIN_ID, NORMAL) = IMPORTING_JSON
    /\ Displays(handle_text_message(World, ADMIN_ID, text), <<>>)

NextButtons ==
    \/ AdminStart
    \/ \E data \in ButtonData : AdminPress(data)
    \/ \E text \in Texts : AdminText(text)

SpecButtons == Init /\ [][NextButtons]_vars

----------------------------------------------------------------------------
(* DatabaseManager called by one caller: the calls in any order, one at a  *)
(* time, on the store main() has initialised                               *)

\* the arguments of the calls
LinkText == <<"[", "A", "]", "(", "a", ")">>
NameArgs == { <<" ", "a">>, <<"A">> }
LectureNoArgs == { <<"2">>, <<"1", "0">> }
ContentArgs == { <<" ", "a">>, LinkText }
SubjectIdArgs == {1, 2}
BookTypeArgs == {"ncert", "novel"}

\* the store a repository call leaves becomes the next state
CallBecomes(c) ==
    /\ steps < MaxOperations
    /\ steps' = steps + 1
    /\ db' = c.db
    /\ UNCHANGED <<histVars, botVars, repoVars>>

AddSubject(name) == CallBecomes(add_subject(db, name))

DeleteSubject(subject_id) == CallBecomes(delete_subject(db, subject_id))

AddLecture(subject_id, lecture_no, content) ==
    CallBecomes(add_lecture(db, subject_id, lecture_no, content))

AddBook(name, book_type, content) == CallBecomes(add_book(db, name, book_type, content))

\* the documents imported
ImportDocs ==
    { [subjects |-> << [name |-> <<" ", "a">>] >>,
       lectures |-> << [subject_name |-> <<"a">>, lecture_no |-> <<"2">>,
                        content |-> <<" ", "a">>] >>],
      [subjects |-> << [id |-> 1], [name |-> <<"g">>] >>,
       books |-> << [name |-> <<"g">>, type |-> "upsc", content |-> LinkText] >>],
      [subjects |-> << [name |-> JsonNumber], [name |-> <<"g">>] >>],
      [lectures |-> << [subject_name |-> <<"g">>, lecture_no |-> <<"2">>,
                        content |-> <<"a">>],
                       [subject_name |-> <<"A">>, lecture_no |-> <<"1", "0">>,
                        content |-> <<"a">>] >>] }

Import(import_data) == CallBecomes(import_database_json(db, import_data))

NextCalls ==
    \/ \E name \in NameArgs : AddSubject(name)
    \/ \E i \in SubjectIdArgs : DeleteSubject(i)
    \/ \E i \in SubjectIdArgs, no \in LectureNoArgs, content \in ContentArgs :
          AddLecture(i, no, content)
    \/ \E t \in BookTypeArgs, content \in ContentArgs : AddBook(<<" ", "a">>, t, content)
    \/ \E import_data \in ImportDocs : Import(import_data)

SpecCalls == Init /\ [][NextCalls]_vars

----------------------------------------------------------------------------
(* DatabaseManager called from several threads.  Every thread has its own  *)
(* connection (threading.local); a step is one SQL statement or the end of *)
(* one with statement.  SQLite lets one connection write at a time: a      *)
(* write or a schema change met while another connection's transaction is  *)
(* open waits, and fails with "database is locked" when the timeout ends.  *)

\* the text argument of the calls, and the document of the import call:
\* {"subjects": [{"name": " a"}],
\*  "lectures": [{"subject_name": "A", "lecture_no": " a", "content": " a"}]}
ArgText == <<" ", "a">>
ImportSubjectName == DEFAULT_SUBJECTS[1]

\* the calls the threads make: the operation and its id argument
Calls ==
    { [op |-> "add_subject", id |-> 0], [op |-> "get_subjects", id |-> 0],
      [op |-> "delete_lecture", id |-> 1], [op |-> "reset_database", id |-> 0],
      [op |-> "import_database_json", id |-> 0] }
    \cup { [op |-> o, id |-> i] : o \in {"rename_subject", "delete_subject", "add_lecture"},
                                 i \in {1, 2} }

\* the statements of an operation in the order the code runs them; "exit" is
\* the end of a with statement (of the innermost one, when they are nested)
Program(op) ==
    CASE op = "add_subject" -> <<"insert_subject", "exit">>
      [] op = "delete_subject" -> <<"delete_subject", "exit">>
      [] op = "rename_subject" -> <<"update_subject", "exit">>
      [] op = "add_lecture" -> <<"select_subject", "insert_lecture", "exit">>
      [] op = "delete_lecture" -> <<"delete_lecture", "exit">>
      [] op = "get_subjects" -> <<"select_subjects", "exit">>
      [] op = "reset_database" ->
            <<"drop_lectures", "drop_books", "drop_subjects",
              "create_subjects", "create_lectures", "create_books",
              "index_lectures", "index_books", "count_subjects">>
            \o [i \in 1 .. Len(DEFAULT_SUBJECTS) |-> "insert_default"] \o <<"exit">>
      [] op = "import_database_json" ->
            <<"insert_subject", "exit", "select_subjects", "exit",
              "select_subject", "insert_lecture", "exit">>

\* INSERT, UPDATE, DELETE: sqlite3 opens a transaction before the statement
Dml == {"insert_subject", "delete_subject", "update_subject", "insert_lecture",
        "delete_lecture", "insert_default"}
\* DROP, CREATE: run at once (autocommit) unless a transaction is open
Ddl == {"drop_lectures", "drop_books", "drop_subjects", "create_subjects",
        "create_lectures", "create_books", "index_lectures", "index_books"}

StepOf(c) == Program(c.op)[c.pc]

\* position of the first default of the seeding loop of init_database
FirstDefault == Len(Program("reset_database")) - Len(DEFAULT_SUBJECTS)

\* statement c.pc of the call c, run on image d
Run(c, d) ==
    LET s == StepOf(c)
    IN CASE s = "insert_subject" -> SqlInsertSubject(d, strip(ArgText))
         [] s = "delete_subject" -> SqlDeleteSubject(d, c.id)
         [] s = "update_subject" -> SqlUpdateSubjectName(d, c.id, strip(ArgText))
         [] s = "select_subject" -> SqlSelectSubject(d, c.id)
         [] s = "insert_lecture" -> SqlInsertLecture(d, c.id, strip(ArgText), strip(ArgText))
         [] s = "delete_lecture" -> SqlDeleteLecture(d, c.id)
         [] s = "select_subjects" -> SqlSelectSubjects(d)
         [] s = "drop_lectures" -> SqlDropTable(d, "lectures")
         [] s = "drop_books" -> SqlDropTable(d, "books")
         [] s = "drop_subjects" -> SqlDropTable(d, "subjects")
         [] s = "create_subjects" -> SqlCreateTable(d, "subjects")
         [] s = "create_lectures" -> SqlCreateTable(d, "lectures")
         [] s = "create_books" -> SqlCreateTable(d, "books")
         [] s = "index_lectures" -> SqlCreateIndex(d, "lectures")
         [] s = "index_books" -> SqlCreateIndex(d, "books")
         [] s = "count_subjects" -> SqlCountSubjects(d)
         [] s = "insert_default" ->
                SqlInsertSubject(d, DEFAULT_SUBJECTS[c.pc - FirstDefault + 1])

\* the end of the with statement the call is in, and its beginning
NextExit(c) ==
    CHOOSE k \in c.pc .. Len(Program(c.op)) :
        /\ Program(c.op)[k] = "exit"
        /\ \A j \in c.pc .. k - 1 : Program(c.op)[j] # "exit"
WithStart(c) ==
    CHOOSE k \in 1 .. c.pc :
        /\ \A j \in k .. c.pc - 1 : Program(c.op)[j] # "exit"
        /\ (k = 1 \/ Program(c.op)[k - 1] = "exit")

\* the exception e leaves the body of the with statement
Throw(c, e) == [c EXCEPT !.err = e, !.pc = NextExit(c)]

\* the call after its statement ran with result r
AfterStatement(c, r) ==
    LET s == StepOf(c)
    IN IF r.err # "none" /\ ~ (s = "insert_default" /\ r.err = "IntegrityError")
       THEN Throw(c, r.err)
       ELSE CASE s \in {"insert_subject", "insert_lecture"} ->
                    [c EXCEPT !.val = "True", !.pc = @ + 1]
              [] s \in {"delete_subject", "update_subject", "delete_lecture"} ->
                    [c EXCEPT !.val = Bool(r.rowcount > 0), !.pc = @ + 1]
              [] s = "select_subject" ->
                    IF r.rows = {} THEN [c EXCEPT !.val = "False", !.pc = NextExit(c)]
                    ELSE [c EXCEPT !.pc = @ + 1]
              [] s = "select_subjects" ->
                    IF c.op = "import_database_json"
                    THEN LET found == {x \in r.rows : x.name = ImportSubjectName}
                         IN [c EXCEPT !.pc = @ + 1,
                                      !.id = IF found = {} THEN 0
                                             ELSE (CHOOSE x \in found : TRUE).id]
                    ELSE [c EXCEPT !.val = IF r.rows = {} THEN "empty" ELSE "some",
                                   !.pc = @ + 1]
              [] s = "count_subjects" ->
                    IF r.rows = 0 THEN [c EXCEPT !.pc = @ + 1]
                    ELSE [c EXCEPT !.val = "True", !.pc = NextExit(c)]
              [] OTHER -> [c EXCEPT !.val = "True", !.pc = @ + 1]

Finish(c, ret, exc) ==
    [c EXCEPT !.at = "idle", !.pc = 0, !.val = "none", !.ret = ret, !.exc = exc]

\* the call after the with statement ended as get_connection decides (plan):
\* the except clauses of the operation and what it returns
AfterExit(c, plan) ==
    IF plan.reruns >= c.ran
    THEN [c EXCEPT !.pc = WithStart(c), !.ran = @ + 1, !.err = "none"]
    ELSE IF c.op = "import_database_json"
    THEN IF plan.exc \notin SqliteErrors \cup {"none"} THEN Finish(c, "error", "none")
         ELSE IF c.pc = Len(Program(c.op)) \/ (c.pc = 4 /\ c.id = 0)
              THEN Finish(c, "done", "none")
         ELSE [c EXCEPT !.pc = @ + 1, !.err = "none", !.val = "none", !.ran = 1]
    ELSE IF c.op = "reset_database"
    THEN Finish(c, IF plan.exc = "none" THEN "True" ELSE "False", "none")
    ELSE IF plan.exc = "none" THEN Finish(c, c.val, "none")
    ELSE IF plan.exc \in SqliteErrors
         THEN Finish(c, IF c.op = "get_subjects" THEN "empty" ELSE "False", "none")
    ELSE Finish(c, "none", plan.exc)

\* what thread t reads: its open transaction's image, or the committed one
Image(t) == IF conn[t].tx THEN conn[t].view ELSE db

\* another connection's transaction is open
Blocked(t) == wlock \notin {NoThread, t}

\* thread t calls an operation.  The record of a call:
\*   op, id   the operation and its argument        pc   the next statement
\*   err      the exception that left the body (kept when the call has finished)
\*   val      the value the body returns
\*   ret, exc what the finished call returned, the exception that escaped it
\*   ran      how many times the body of the current with statement was started
\*   locked   the call met "database is locked"
\*   kept     a with statement that ended with an exception committed changes
Call(t, call) ==
    /\ th[t].at = "idle"
    /\ steps < MaxCalls
    /\ steps' = steps + 1
    /\ th' = [th EXCEPT ![t] = [Idle EXCEPT !.op = call.op, !.id = call.id,
                                            !.at = "body", !.pc = 1, !.ran = 1]]
    /\ conn' = [conn EXCEPT ![t].open = TRUE]
    /\ UNCHANGED <<histVars, botVars, db, faults, wlock>>

\* thread t runs its next statement
Statement(t) ==
    LET c == th[t]
        s == StepOf(c)
        r == Run(c, Image(t))
        begins == s \in Dml /\ r.err # "OperationalError"
    IN /\ c.at = "body"
       /\ s # "exit"
       /\ s \in Dml \cup Ddl => ~ Blocked(t)
       /\ WithinBounds(r.db)
       /\ th' = [th EXCEPT ![t] = AfterStatement(c, r)]
       /\ IF conn[t].tx \/ begins
          THEN /\ conn' = [conn EXCEPT ![t].tx = TRUE, ![t].view = r.db]
               /\ wlock' = t
               /\ db' = db
          ELSE /\ db' = r.db
               /\ UNCHANGED <<conn, wlock>>
       /\ UNCHANGED <<histVars, botVars, steps, faults>>

\* the timeout ends while another connection's transaction is open
StatementLocked(t) ==
    /\ th[t].at = "body"
    /\ StepOf(th[t]) \in Dml \cup Ddl
    /\ Blocked(t)
    /\ th' = [th EXCEPT ![t] = [Throw(@, "locked") EXCEPT !.locked = TRUE]]
    /\ UNCHANGED <<histVars, botVars, db, steps, faults, conn, wlock>>

\* the storage fails under a write: sqlite3.OperationalError ("disk I/O
\* error", "database or disk is full")
StatementFault(t) ==
    /\ th[t].at = "body"
    /\ StepOf(th[t]) \in Dml \cup Ddl
    /\ ~ Blocked(t)
    /\ faults < MaxFaults
    /\ faults' = faults + 1
    /\ th' = [th EXCEPT ![t] = Throw(@, "OperationalError")]
    /\ UNCHANGED <<histVars, botVars, db, steps, conn, wlock>>

\* the with statement of thread t ends: get_connection's except and finally
Exit(t) ==
    LET c == th[t]
        plan == get_connection(c.err)
        commits == conn[t].tx /\ ~ plan.close /\ ~ plan.rollback
    IN /\ c.at = "body"
       /\ StepOf(c) = "exit"
       /\ db' = IF commits THEN conn[t].view ELSE db
       /\ conn' = [conn EXCEPT ![t] = [NoConn EXCEPT !.open = TRUE]]
       /\ wlock' = IF wlock = t THEN NoThread ELSE wlock
       /\ th' = [th EXCEPT ![t] =
                    AfterExit([c EXCEPT !.kept = @ \/ (c.err # "none" /\ commits
                                                       /\ conn[t].view # db)], plan)]
       /\ UNCHANGED <<histVars, botVars, steps, faults>>

NextRepo ==
    \/ \E t \in Threads, call \in Calls : Call(t, call)
    \/ \E t \in Threads : Statement(t)
    \/ \E t \in Threads : StatementLocked(t)
    \/ \E t \in Threads : StatementFault(t)
    \/ \E t \in Threads : Exit(t)

InitRepo == Start(Threads)

SpecRepo == InitRepo /\ [][NextRepo]_vars

----------------------------------------------------------------------------
(* Properties of the bot (Spec) *)

\* the callback data the public branches of button_callback answer
PublicData ==
    { <<"main", "menu">>, <<"lectures">>, <<"books">>, <<"ncert", "wallah">>,
      <<"upsc", "wallah">>, <<"other", "books">> }
    \cup { <<"subject", IdTok(i)>> : i \in SubjectIds }
    \cup { <<"lecture", IdTok(i)>> : i \in LectureIds }
    \cup { <<t, "book", IdTok(i)>> : t \in BookTypes, i \in BookIds }

\* the world w has the session store and the repository of the current state
SameStores(w) ==
    /\ w.user_states = user_states
    /\ w.temp_data = temp_data
    /\ w.state_timestamps = state_timestamps
    /\ w.last_cleanup = last_cleanup
    /\ w.welcome = welcome
    /\ w.db = db

\* C1: in every reachable state, whatever button a user other than the
\* administrator presses and whatever text they send, the handler leaves the
\* state, scratch data and timestamps of every user and the repository as they
\* were, and a button outside the public ones is answered with access denied.
C1_OnlyAdminChanges ==
    \A u \in Users \ {ADMIN_ID} :
        /\ \A data \in ButtonData :
              \A w \in {button_callback(World, u, data)} :
                 /\ SameStores(w)
                 /\ data \notin PublicData => w.resp = "access_denied"
        /\ \A text \in Texts :
              \A w \in {handle_text_message(World, u, text)} : SameStores(w)

\* the administrator is in the middle of a flow, a lecture is stored, and a
\* non-administrator's confirmed reset is refused there
C1_Witness ==
    /\ ADMIN_ID \in DOMAIN temp_data
    /\ db.lectures # {}
    /\ button_callback(World, 2, <<"confirm", "reset", "database">>).resp = "access_denied"
    /\ button_callback(World, 2, <<"confirm", "reset", "database">>).db = db

\* C2: whenever the administrator is in ADDING_SUBJECT, a text whose trimmed
\* value is non-empty and names no stored subject makes handle_text_message add
\* exactly one subject, named by the trimmed text, change nothing else in the
\* repository, and clear the administrator's session (the state reads NORMAL).
C2_AddSubjectFlow ==
    DictGet(user_states, ADMIN_ID, NORMAL) = ADDING_SUBJECT =>
        \A text \in Texts :
            LET name == strip(text)
                w == handle_text_message(World, ADMIN_ID, text)
                gained == w.db.subjects \ db.subjects
            IN (name # <<>> /\ ~ \E x \in db.subjects : x.name = name) =>
                  /\ db.subjects \subseteq w.db.subjects
                  /\ Cardinality(gained) = 1
                  /\ \A x \in gained : x.name = name
                  /\ w.db.lectures = db.lectures /\ w.db.books = db.books
                  /\ DictGet(w.user_states, ADMIN_ID, NORMAL) = NORMAL
                  /\ ADMIN_ID \notin DOMAIN w.user_states
                  /\ ADMIN_ID \notin DOMAIN w.temp_data
                  /\ ADMIN_ID \notin DOMAIN w.state_timestamps

\* the administrator is in ADDING_SUBJECT with scratch data left by an earlier
\* flow, and the text " a" is accepted as the new subject "a"
C2_Witness ==
    /\ DictGet(user_states, ADMIN_ID, NORMAL) = ADDING_SUBJECT
    /\ ADMIN_ID \in DOMAIN temp_data
    /\ handle_text_message(World, ADMIN_ID, <<" ", "a">>).ret = "True"
    /\ \E x \in handle_text_message(World, ADMIN_ID, <<" ", "a">>).db.subjects :
          x.name = <<"a">>

\* C7: in every reachable state, delete_subject on a stored subject returns
\* True, removes that subject and the lectures whose subject_id is its id,
\* leaves the other subjects, the other lectures and the books as they were,
\* and get_lecture then finds none of the removed lectures.
C7_DeleteSubject ==
    \A x \in db.subjects :
        LET r == delete_subject(db, x.id)
            removed == {l \in db.lectures : l.subject_id = x.id}
        IN /\ r.exc = "none" /\ r.ret = TRUE
           /\ r.db.subjects = db.subjects \ {x}
           /\ r.db.lectures = db.lectures \ removed
           /\ r.db.books = db.books
           /\ \A l \in removed : get_lecture(r.db, l.id).ret = {}

\* a subject with a lecture is stored beside a subject the administrator added,
\* and deleting the first takes its lecture away
C7_Witness ==
    /\ \E x \in db.subjects : x.id = 7
    /\ \E l \in db.lectures :
          /\ l.subject_id = 1
          /\ delete_subject(db, 1).db.lectures = db.lectures \ {l}
          /\ get_lecture(db, l.id).ret # {}
          /\ get_lecture(delete_subject(db, 1).db, l.id).ret = {}

\* the names handed to the repository operations in the properties below
ArgTexts == { <<>>, <<" ">>, <<" ", " ">>, <<"a">>, <<" ", "a">>, <<"a", " ">>, <<"A">> }

\* C8: in every reachable state, add_subject with a name whose trimmed value
\* is non-empty and not stored returns True and get_subjects then lists that
\* name exactly once; add_subject again, with any name of the same trimmed
\* value, returns False and leaves the store as it was.
C8_AddSubject ==
    \A t1 \in ArgTexts :
        (~ IsBlank(t1) /\ ~ \E x \in db.subjects : x.name = strip(t1)) =>
            LET r1 == add_subject(db, t1)
            IN /\ r1.exc = "none" /\ r1.ret = TRUE
               /\ Cardinality({x \in get_subjects(r1.db).ret : x.name = strip(t1)}) = 1
               /\ \A t2 \in ArgTexts :
                     strip(t2) = strip(t1) =>
                        LET r2 == add_subject(r1.db, t2)
                        IN r2.exc = "none" /\ r2.ret = FALSE /\ r2.db = r1.db

\* the subject "a" was added with id 7, and adding "a " is refused
C8_Witness ==
    /\ [id |-> 7, name |-> <<"a">>] \in db.subjects
    /\ add_subject(db, <<"a", " ">>).ret = FALSE
    /\ add_subject(db, <<"a", " ">>).db = db

\* C10: in every reachable state no subject name, lecture number, lecture
\* content, book name or book content is empty or begins or ends with
\* whitespace, and every add, rename or update called with an empty or
\* whitespace-only text returns False and leaves the store as it was.
C10_TextsTrimmed ==
    /\ \A x \in db.subjects : x.name # <<>> /\ strip(x.name) = x.name
    /\ \A l \in db.lectures : /\ l.lecture_no # <<>> /\ strip(l.lecture_no) = l.lecture_no
                              /\ l.content # <<>> /\ strip(l.content) = l.content
    /\ \A b \in db.books : /\ b.name # <<>> /\ strip(b.name) = b.name
                           /\ b.content # <<>> /\ strip(b.content) = b.content
    /\ \A blank \in {t \in ArgTexts : IsBlank(t)} :
          /\ add_subject(db, blank) = Returns(db, FALSE)
          /\ \A i \in Ids :
                /\ rename_subject(db, i, blank) = Returns(db, FALSE)
                /\ update_lecture(db, i, blank) = Returns(db, FALSE)
                /\ update_book(db, i, blank) = Returns(db, FALSE)
                /\ \A other \in ArgTexts :
                      /\ add_lecture(db, i, blank, other) = Returns(db, FALSE)
                      /\ add_lecture(db, i, other, blank) = Returns(db, FALSE)
          /\ \A k \in BookTypes, other \in ArgTexts :
                /\ add_book(db, blank, k, other) = Returns(db, FALSE)
                /\ add_book(db, other, k, blank) = Returns(db, FALSE)

\* a lecture entered as " a" / " a" is stored as "a" / "a" beside an added
\* subject, and blank texts are refused there
C10_Witness ==
    /\ \E l \in db.lectures : l.lecture_no = <<"a">> /\ l.content = <<"a">>
    /\ \E x \in db.subjects : x.id = 7 /\ x.name = <<"a">>
    /\ add_lecture(db, 1, <<" ">>, <<"a">>).ret = FALSE
    /\ update_lecture(db, 1, <<" ", " ">>).ret = FALSE

\* the scratch keys the text handler of a state reads (the keys that handler
\* needs for its next transition); the other states' handlers read none
RequiredKeys(state) ==
    CASE state = ADDING_LECTURE_NUMBER -> {"subject_id"}
      [] state = ADDING_LECTURE_CONTENT -> {"subject_id", "lecture_no"}
      [] state = EDITING_LECTURE -> {"lecture_id"}
      [] state = RENAMING_SUBJECT -> {"subject_id"}
      [] state = ADDING_BOOK_NAME -> {"book_type"}
      [] state = ADDING_BOOK_CONTENT -> {"book_type", "book_name"}
      [] state = EDITING_BOOK -> {"book_id"}
      [] OTHER -> {}

\* the scratch keys a user has
ScratchKeys(w, u) == DOMAIN DictGet(w.temp_data, u, EmptyDict)

\* C11: in every reachable state, the keys of every user's scratch mapping are
\* exactly the keys the current state's text handler needs; in particular no
\* key of an earlier flow is left once another flow has been started.
C11_ScratchKeysMatchState ==
    \A u \in Users :
        ScratchKeys(World, u) = RequiredKeys(DictGet(user_states, u, NORMAL))

\* C14: in every reachable state, a confirmed delete (confirm_delete_subject_<id>,
\* confirm_delete_lecture_<id>, confirm_delete_<type>_book_<id>) by the
\* administrator that the repository carries out leaves the administrator's
\* session reset: the state reads NORMAL, whatever it was before.
C14_DeleteResetsSession ==
    \A data \in {d \in IdData : StartsWith(d, <<"confirm", "delete">>)} :
        LET w == button_callback(World, ADMIN_ID, data)
        IN w.ret = "True" => DictGet(w.user_states, ADMIN_ID, NORMAL) = NORMAL

----------------------------------------------------------------------------
(* Properties of the session store and of the router on it (SpecSession) *)

\* the user has no state, no scratch data and no timestamp
Cleared(w, u) ==
    /\ u \notin DOMAIN w.user_states
    /\ u \notin DOMAIN w.temp_data
    /\ u \notin DOMAIN w.state_timestamps

\* the states whose text handler checks the scratch keys before it acts
CheckedStates ==
    { ADDING_LECTURE_CONTENT, EDITING_LECTURE, RENAMING_SUBJECT, ADDING_BOOK_CONTENT,
      EDITING_BOOK }

\* C12: whenever the administrator is in ADDING_LECTURE_CONTENT, EDITING_LECTURE,
\* RENAMING_SUBJECT, ADDING_BOOK_CONTENT or EDITING_BOOK and the scratch mapping
\* lacks a key that state's handler needs, every text message leaves the
\* repository as it was, is answered with "session expired", and clears the
\* session (the state reads NORMAL).
C12_MissingScratchExpires ==
    LET state == DictGet(user_states, ADMIN_ID, NORMAL)
    IN (/\ state \in CheckedStates
        /\ ~ (RequiredKeys(state) \subseteq ScratchKeys(World, ADMIN_ID))) =>
           \A text \in Texts :
               LET w == handle_text_message(World, ADMIN_ID, text)
               IN /\ w.db = db
                  /\ w.resp = "session_expired"
                  /\ Cleared(w, ADMIN_ID)
                  /\ DictGet(w.user_states, ADMIN_ID, NORMAL) = NORMAL

\* the administrator is in ADDING_LECTURE_CONTENT with the subject id but no
\* lecture number, and a text is answered with "session expired"
C12_Witness ==
    /\ DictGet(user_states, ADMIN_ID, NORMAL) = ADDING_LECTURE_CONTENT
    /\ ScratchKeys(World, ADMIN_ID) = {"subject_id"}
    /\ handle_text_message(World, ADMIN_ID, <<" ", "a">>).resp = "session_expired"
    /\ Cleared(handle_text_message(World, ADMIN_ID, <<" ", "a">>), ADMIN_ID)

\* C15 (checked on the bot, Spec): whenever the administrator is in a state whose
\* text handler calls the repository (ADDING_SUBJECT, ADDING_LECTURE_CONTENT,
\* EDITING_LECTURE, RENAMING_SUBJECT, ADDING_BOOK_CONTENT, EDITING_BOOK) and
\* has the scratch keys the handler needs, a text message calls the repository;
\* if the call returns False the administrator's state and scratch mapping are
\* exactly what they were, and if it returns True the administrator's state,
\* scratch mapping and timestamp are all removed.
C15_FailureKeepsSession ==
    LET state == DictGet(user_states, ADMIN_ID, NORMAL)
    IN (/\ state \in CheckedStates \cup {ADDING_SUBJECT}
        /\ RequiredKeys(state) \subseteq ScratchKeys(World, ADMIN_ID)) =>
           \A text \in PlainTexts :
               LET w == handle_text_message(World, ADMIN_ID, text)
               IN /\ w.ret \in {"True", "False"}
                  /\ w.ret = "False" =>
                        /\ w.user_states = user_states
                        /\ w.temp_data = temp_data
                  /\ w.ret = "True" => Cleared(w, ADMIN_ID)

\* the administrator is renaming subject 1: a blank text is refused and leaves
\* the session as it is, the text " a" is accepted and clears it
C15_Witness ==
    /\ DictGet(user_states, ADMIN_ID, NORMAL) = RENAMING_SUBJECT
    /\ DictGet(temp_data, ADMIN_ID, EmptyDict) = DictSet(EmptyDict, "subject_id", 1)
    /\ handle_text_message(World, ADMIN_ID, <<" ">>).ret = "False"
    /\ handle_text_message(World, ADMIN_ID, <<" ">>).user_states = user_states
    /\ handle_text_message(World, ADMIN_ID, <<" ", "a">>).ret = "True"
    /\ Cleared(handle_text_message(World, ADMIN_ID, <<" ", "a">>), ADMIN_ID)

\* C13: whenever the administrator is in ADDING_LECTURE_NUMBER or
\* ADDING_BOOK_NAME and has no scratch mapping, every text message is answered
\* with "session expired" and resets the session: the state reads NORMAL
\* afterwards, and state, scratch data and timestamp are gone.
C13_LostScratchExpires ==
    LET state == DictGet(user_states, ADMIN_ID, NORMAL)
    IN (/\ state \in {ADDING_LECTURE_NUMBER, ADDING_BOOK_NAME}
        /\ ADMIN_ID \notin DOMAIN temp_data) =>
           \A text \in Texts :
               LET w == handle_text_message(World, ADMIN_ID, text)
               IN /\ w.resp = "session_expired"
                  /\ DictGet(w.user_states, ADMIN_ID, NORMAL) = NORMAL
                  /\ Cleared(w, ADMIN_ID)

\* the state a start-flow button names
FlowStart(data) ==
    IF data = <<"add", "subject">> THEN ADDING_SUBJECT
    ELSE IF data = <<"change", "welcome", "message">> THEN CHANGING_WELCOME
    ELSE IF data = <<"search", "content">> THEN SEARCHING_CONTENT
    ELSE IF data = <<"search", "lectures">> THEN SEARCHING_LECTURES
    ELSE IF data = <<"import", "json">> THEN IMPORTING_JSON
    ELSE IF StartsWith(data, <<"add", "lecture">>) THEN ADDING_LECTURE_NUMBER
    ELSE IF StartsWith(data, <<"rename", "subject">>) THEN RENAMING_SUBJECT
    ELSE IF StartsWith(data, <<"edit", "lecture">>) THEN EDITING_LECTURE
    ELSE IF data[1] = "add" THEN ADDING_BOOK_NAME
    ELSE EDITING_BOOK

\* what a handler did to the repository and to the users' states, and its answer
Outcome(w) == <<w.db, w.user_states, w.resp>>

\* the answers that ask for the input of a flow
AskReplies ==
    { "ask_subject_name", "ask_lecture_number", "ask_welcome", "ask_lecture_content",
      "ask_new_name", "ask_book_name", "ask_book_content", "ask_search", "ask_json" }

\* C16: in every state of the session store (with or without a flow of the
\* administrator in progress, at any time), every start-flow button pressed by the
\* administrator is accepted: afterwards the administrator is in the state that
\* flow starts with, has the scratch keys that state needs, and the timestamp is
\* the current time; and a text sent next has the effect on the repository and
\* on the states that it has when the flow is started from a cleared session,
\* so the flow that was in progress is not completed by it.
C16_StartFlowOverwrites ==
    \A data \in StartFlowData :
        \A w \in {button_callback(World, ADMIN_ID, data)},
           fresh \in {button_callback(_reset_user_state(World, ADMIN_ID), ADMIN_ID, data)} :
           /\ w.resp \in AskReplies
           /\ DictGet(w.user_states, ADMIN_ID, NORMAL) = FlowStart(data)
           /\ RequiredKeys(FlowStart(data)) \subseteq ScratchKeys(w, ADMIN_ID)
           /\ DictGet(w.state_timestamps, ADMIN_ID, -1) = now
           /\ \A text \in PlainTexts :
                 Outcome(handle_text_message(w, ADMIN_ID, text))
                     = Outcome(handle_text_message(fresh, ADMIN_ID, text))

\* the administrator was asked for a lecture's new content some time ago (the
\* lecture id is stored) and presses add_subject: the state becomes
\* ADDING_SUBJECT, the timestamp the current time, and the text " a" then adds
\* the subject "a" and changes no lecture
C16_Witness ==
    /\ DictGet(user_states, ADMIN_ID, NORMAL) = EDITING_LECTURE
    /\ ScratchKeys(World, ADMIN_ID) = {"lecture_id"}
    /\ DictGet(state_timestamps, ADMIN_ID, now) < now
    /\ LET w == button_callback(World, ADMIN_ID, <<"add", "subject">>)
           after == handle_text_message(w, ADMIN_ID, <<" ", "a">>)
       IN /\ DictGet(w.user_states, ADMIN_ID, NORMAL) = ADDING_SUBJECT
          /\ DictGet(w.state_timestamps, ADMIN_ID, -1) = now
          /\ after.ret = "True"
          /\ after.db.lectures = db.lectures
          /\ \E x \in after.db.subjects : x.name = <<"a">>

\* the state changes a text message may cause: none, to NORMAL, and the step
\* forward inside the two flows that take two texts
TextTransition(before, after) ==
    \/ after = before
    \/ after = NORMAL
    \/ before = ADDING_LECTURE_NUMBER /\ after = ADDING_LECTURE_CONTENT
    \/ before = ADDING_BOOK_NAME /\ after = ADDING_BOOK_CONTENT

StateOf(w, u) == DictGet(w.user_states, u, NORMAL)

\* C17: in every state of the session store, for every sender and every two
\* texts sent one after the other, each text changes every user's state only
\* from s to s, from s to NORMAL, from ADDING_LECTURE_NUMBER to
\* ADDING_LECTURE_CONTENT or from ADDING_BOOK_NAME to ADDING_BOOK_CONTENT; a
\* text whose repository call returns True leaves the sender in NORMAL; and a
\* sender whose first text moved the state forward cannot be moved forward
\* again by the second, so no flow is more than two texts deep.
C17_TextTransitions ==
    \A sender \in Users, t1 \in Texts :
        \A w1 \in {handle_text_message(World, sender, t1)} :
           /\ \A u \in Users : TextTransition(StateOf(World, u), StateOf(w1, u))
           /\ w1.ret = "True" => StateOf(w1, sender) = NORMAL
           /\ \A t2 \in Texts :
                 \A w2 \in {handle_text_message(w1, sender, t2)} :
                    /\ \A u \in Users : TextTransition(StateOf(w1, u), StateOf(w2, u))
                    /\ w2.ret = "True" => StateOf(w2, sender) = NORMAL
                    /\ StateOf(w1, sender) \notin {StateOf(World, sender), NORMAL} =>
                          StateOf(w2, sender) \in {StateOf(w1, sender), NORMAL}

\* the administrator is asked for the number of a lecture of subject 1: the
\* first text moves the state to ADDING_LECTURE_CONTENT, the second one adds
\* the lecture and the state reads NORMAL
C17_Witness ==
    /\ StateOf(World, ADMIN_ID) = ADDING_LECTURE_NUMBER
    /\ DictGet(temp_data, ADMIN_ID, EmptyDict) = DictSet(EmptyDict, "subject_id", 1)
    /\ LET w1 == handle_text_message(World, ADMIN_ID, <<" ", "a">>)
           w2 == handle_text_message(w1, ADMIN_ID, <<" ", "a">>)
       IN /\ StateOf(w1, ADMIN_ID) = ADDING_LECTURE_CONTENT
          /\ w2.ret = "True"
          /\ w2.db.lectures # db.lectures
          /\ StateOf(w2, ADMIN_ID) = NORMAL

\* C18: whenever the administrator has no recorded state, every text message of
\* the administrator leaves the repository, the welcome text and the session
\* store (states, scratch data, timestamps, time of the last sweep) exactly as
\* they were and is answered with the request to use the buttons; and in every
\* state this is what a text does once the administrator's session has been
\* reset, whatever flow was in progress before.
C18_TextWithoutStateChangesNothing ==
    /\ ADMIN_ID \notin DOMAIN user_states =>
          \A text \in Texts :
              handle_text_message(World, ADMIN_ID, text) = Reply(World, "use_buttons")
    /\ \A w0 \in {_reset_user_state(World, ADMIN_ID)} :
          \A text \in Texts :
              handle_text_message(w0, ADMIN_ID, text) = Reply(w0, "use_buttons")

\* the administrator has added the subject "a" by text and has no recorded
\* state any more: the next text is answered with the request to use the buttons
\* and adds nothing
C18_Witness ==
    /\ ADMIN_ID \notin DOMAIN user_states
    /\ \E x \in db.subjects : x.name = <<"a">>
    /\ handle_text_message(World, ADMIN_ID, <<" ", "a">>).resp = "use_buttons"
    /\ handle_text_message(World, ADMIN_ID, <<" ", "a">>).db = db

----------------------------------------------------------------------------
(* Properties of the expiry sweep (SpecClock).  The sweep body is the only  *)
(* code that assigns _last_cleanup, and it assigns a time at least          *)
(* CLEANUP_INTERVAL later: a step runs the body iff last_cleanup changes.  *)

\* C19: the session store is created at time 0 with last_cleanup = 0.  Every
\* step that runs the sweep body is a call of _update_user_state, runs it at
\* the current time and at least CLEANUP_INTERVAL (3600 s) after the previous
\* run, or after the creation of the store if there was none; and no
\* _reset_user_state call, no scratch write and no passing of time runs it.
C19_SweepAtMostHourly ==
    /\ [](last_cleanup = 0 \/ last_cleanup >= CLEANUP_INTERVAL)
    /\ [][last_cleanup' # last_cleanup =>
            /\ last_cleanup' = now
            /\ last_cleanup' - last_cleanup >= CLEANUP_INTERVAL
            /\ \E c \in SetStateCalls : SetState(c[1], c[2])]_vars
    /\ [][((\E u \in Users : Reset(u))
           \/ (\E c \in ScratchWrites : SetScratch(c[1], c[2], c[3]))
           \/ Tick) => last_cleanup' = last_cleanup]_vars

\* the sweep ran at time 3600, and half an hour later the administrator's state
\* was set without another sweep
C19_Witness ==
    /\ last_cleanup = CLEANUP_INTERVAL
    /\ now = last_cleanup + TickSeconds
    /\ DictGet(state_timestamps, ADMIN_ID, -1) = now

\* user u has in w the state, the scratch data and the timestamp it has in v
SameSession(w, v, u) ==
    \A f \in {"user_states", "temp_data", "state_timestamps"} :
        /\ (u \in DOMAIN w[f]) = (u \in DOMAIN v[f])
        /\ u \in DOMAIN w[f] => w[f][u] = v[f][u]

\* the timestamp of user u is older than the staleness window
Stale(w, u) ==
    u \in DOMAIN w.state_timestamps /\ w.state_timestamps[u] < now - STALE_AFTER

\* C20: whenever a sweep is due (the last one, or the creation of the store, is
\* at least CLEANUP_INTERVAL ago), the sweep body run at the current time
\* removes state, scratch data and timestamp of every user whose timestamp is
\* older than the current time minus STALE_AFTER (7200 s) and leaves state,
\* scratch data and timestamp of every other user as they were; and a call of
\* _update_user_state does this to every user but the one whose state it sets.
C20_SweepRemovesStaleOnly ==
    now - last_cleanup >= CLEANUP_INTERVAL =>
        /\ \A w \in {_cleanup_old_states(World)} :
              /\ w.last_cleanup = now
              /\ \A u \in Users :
                    IF Stale(World, u) THEN Cleared(w, u) ELSE SameSession(w, World, u)
        /\ \A c \in SetStateCalls :
              \A w \in {_update_user_state(World, c[1], c[2])} :
                 /\ w.last_cleanup = now
                 /\ StateOf(w, c[1]) = c[2]
                 /\ \A u \in Users \ {c[1]} :
                       IF Stale(World, u) THEN Cleared(w, u) ELSE SameSession(w, World, u)

\* a sweep is due; the session of user 2 is older than the staleness window and
\* is removed, the administrator's is exactly as old as the window and is kept
C20_Witness ==
    /\ now - last_cleanup >= CLEANUP_INTERVAL
    /\ Stale(World, 2)
    /\ DictGet(state_timestamps, ADMIN_ID, -1) = now - STALE_AFTER
    /\ Cleared(_cleanup_old_states(World), 2)
    /\ ADMIN_ID \in DOMAIN _cleanup_old_states(World).user_states

----------------------------------------------------------------------------
(* Properties of /start on the session store (SpecSession) *)

\* C21: in every state of the session store, /start from any user leaves that
\* user without state, scratch data and timestamp (the state reads NORMAL, the
\* scratch mapping is empty), leaves state, scratch data and timestamp of every
\* other user as they were, and leaves the repository, the welcome text and
\* the time of the last sweep unchanged.
C21_StartResetsOnlySender ==
    \A u \in Users :
        \A w \in {start_command(World, u)} :
           /\ Cleared(w, u)
           /\ StateOf(w, u) = NORMAL
           /\ ScratchKeys(w, u) = {}
           /\ \A v \in Users \ {u} : SameSession(w, World, v)
           /\ w.db = db
           /\ w.welcome = welcome
           /\ w.last_cleanup = last_cleanup

\* the administrator is editing lecture 1 and user 2 has a session too: /start
\* from the administrator clears the administrator's session and keeps the other
C21_Witness ==
    /\ StateOf(World, ADMIN_ID) = EDITING_LECTURE
    /\ ScratchKeys(World, ADMIN_ID) = {"lecture_id"}
    /\ StateOf(World, 2) = EDITING_LECTURE
    /\ Cleared(start_command(World, ADMIN_ID), ADMIN_ID)
    /\ StateOf(start_command(World, ADMIN_ID), 2) = EDITING_LECTURE

----------------------------------------------------------------------------
(* Properties of the book flows and of the repository calls (Spec) *)

\* C22: whenever the administrator is in ADDING_BOOK_CONTENT with a book type and
\* a book name whose trimmed text is the name of a stored book, every text sent
\* as the content is refused: add_book returns False, the repository is
\* unchanged and the state stays ADDING_BOOK_CONTENT.
C22_DuplicateBookRejected ==
    LET temp == DictGet(temp_data, ADMIN_ID, EmptyDict)
    IN (/\ StateOf(World, ADMIN_ID) = ADDING_BOOK_CONTENT
        /\ {"book_type", "book_name"} \subseteq DOMAIN temp
        /\ \E b \in db.books : b.name = strip(temp["book_name"])) =>
           \A text \in PlainTexts :
               \A w \in {handle_text_message(World, ADMIN_ID, text)} :
                  /\ w.ret = "False"
                  /\ w.db = db
                  /\ StateOf(w, ADMIN_ID) = ADDING_BOOK_CONTENT

----------------------------------------------------------------------------
(* Properties of the repository calls of one caller (SpecCalls) *)

\* C23: in every reachable store every book's type is ncert, upsc or other; and
\* add_book with any other type executes no storage statement, returns False
\* and leaves the store as it is.
C23_BookTypesValid ==
    /\ \A b \in db.books : b.type \in {"ncert", "upsc", "other"}
    /\ \A t \in {"novel", "NCERT", ""}, name \in NameArgs, content \in ContentArgs :
          /\ add_book_statements(name, t, content) = <<>>
          /\ add_book(db, name, t, content) = Returns(db, FALSE)

\* a book of type ncert is stored, and add_book of the same name and content
\* with the type "novel" is refused
C23_Witness ==
    /\ \E b \in db.books : b.type = "ncert" /\ b.name = <<"a">>
    /\ add_book(db, <<" ", "a">>, "novel", <<" ", "a">>) = Returns(db, FALSE)
    /\ add_book(db, <<" ", "a">>, "ncert", <<" ", "a">>).ret

\* C24: on every reachable store and for every id, delete_subject called again
\* after delete_subject of the same id returns False, raises nothing and
\* leaves the store as the first call left it; and delete_subject of an id
\* that is not stored returns False, raises nothing and leaves the store as
\* it is.
C24_DeleteSubjectIdempotent ==
    \A i \in 1 .. MaxSubjectId + 1 :
        \A c1 \in {delete_subject(db, i)} :
           /\ delete_subject(c1.db, i) = Returns(c1.db, FALSE)
           /\ (~ \E x \in db.subjects : x.id = i) => c1 = Returns(db, FALSE)
           /\ c1.exc = "none"

\* subject 1 had a lecture and has been deleted with it: deleting it again
\* returns False and changes nothing, while deleting subject 2 returns True
C24_Witness ==
    /\ ~ \E x \in db.subjects : x.id = 1
    /\ db.seq.lectures = 1 /\ db.lectures = {}
    /\ delete_subject(db, 1) = Returns(db, FALSE)
    /\ delete_subject(db, 2).ret

\* C25: on every reachable store and for every subject id, get_lectures returns
\* each lecture of that subject once and no other row, in the order of
\* lecture_no compared as text, character by character (so "10" comes before
\* "2"), and leaves the store as it is.
C25_LecturesInTextOrder ==
    \A i \in 1 .. MaxSubjectId :
        \A c \in {get_lectures(db, i)} :
           /\ c.db = db /\ c.exc = "none"
           /\ {c.ret[k] : k \in 1 .. Len(c.ret)} = {l \in db.lectures : l.subject_id = i}
           /\ Len(c.ret) = Cardinality({l \in db.lectures : l.subject_id = i})
           /\ \A j \in 1 .. Len(c.ret), k \in 1 .. Len(c.ret) :
                 j < k => ~ LessText(c.ret[k].lecture_no, c.ret[j].lecture_no)
           /\ \A j \in 1 .. Len(c.ret), k \in 1 .. Len(c.ret) :
                 (c.ret[j].lecture_no = <<"1", "0">> /\ c.ret[k].lecture_no = <<"2">>) => j < k

\* lecture "2" was added to subject 1 before lecture "10": get_lectures lists
\* "10" first
C25_Witness ==
    /\ \E x \in db.lectures : x.id = 1 /\ x.subject_id = 1 /\ x.lecture_no = <<"2">>
    /\ \E x \in db.lectures : x.id = 2 /\ x.subject_id = 1 /\ x.lecture_no = <<"1", "0">>
    /\ Len(get_lectures(db, 1).ret) = 2
    /\ get_lectures(db, 1).ret[1].lecture_no = <<"1", "0">>
    /\ get_lectures(db, 1).ret[2].lecture_no = <<"2">>

\* the number of errors recorded for a list
ErrorsOf(result, list) ==
    Cardinality({k \in 1 .. Len(result.errors) : result.errors[k].list = list})

\* the number of items of a list of a document
ItemsOf(import_data, list) ==
    IF list \in DOMAIN import_data THEN Len(import_data[list]) ELSE 0

\* C26: on every reachable store and for every document, import_database_json
\* ends with its report (no exception ends the loops), and for each of the
\* three lists the items imported and the errors recorded for the list add up
\* to the number of items of the list: every item, one with a missing field or
\* a field that is not text included, is counted once and the items after it
\* are processed.
C26_EveryItemAccounted ==
    \A import_data \in ImportDocs :
        \A c \in {import_database_json(db, import_data)} :
           /\ "error" \notin DOMAIN c.ret
           /\ c.ret.subjects_imported + ErrorsOf(c.ret, "subjects")
                 = ItemsOf(import_data, "subjects")
           /\ c.ret.lectures_imported + ErrorsOf(c.ret, "lectures")
                 = ItemsOf(import_data, "lectures")
           /\ c.ret.books_imported + ErrorsOf(c.ret, "books")
                 = ItemsOf(import_data, "books")

\* the subject lists and the lecture items of the documents of C27
SubjectLists == { <<>>, << [name |-> <<" ", "a">>] >>, << [name |-> <<"g">>] >> }
LectureItems ==
    { [subject_name |-> n, lecture_no |-> <<"2">>, content |-> <<" ", "a">>] :
          n \in { <<"a">>, <<"A">>, <<"g">>, <<" ", "a">> } }

\* C27: on every reachable store, for every document of a list of subjects and
\* one lecture item: if, once the subjects are imported, a subject is stored
\* whose name equals the item's subject_name, the lecture is added to that
\* subject (one new lecture, with the trimmed lecture_no and content) and is
\* counted; otherwise no lecture and no subject is added for the item and one
\* error is recorded for it.
C27_LectureFindsSubjectByName ==
    \A subjects \in SubjectLists, item \in LectureItems :
        \A c1 \in {import_database_json(db, [subjects |-> subjects])},
           c \in {import_database_json(db, [subjects |-> subjects, lectures |-> <<item>>])} :
           /\ c.db.subjects = c1.db.subjects
           /\ c.db.books = db.books
           /\ IF \E x \in c1.db.subjects : x.name = item.subject_name
              THEN /\ c.ret.lectures_imported = 1
                   /\ ErrorsOf(c.ret, "lectures") = 0
                   /\ \E x \in c1.db.subjects :
                         /\ x.name = item.subject_name
                         /\ c.db.lectures = db.lectures \cup
                               {[id |-> db.seq.lectures + 1, subject_id |-> x.id,
                                 lecture_no |-> strip(item.lecture_no),
                                 content |-> strip(item.content)]}
              ELSE /\ c.ret.lectures_imported = 0
                   /\ ErrorsOf(c.ret, "lectures") = 1
                   /\ c.db.lectures = db.lectures

\* subject "a" is not stored: a document that brings the subject " a" and a
\* lecture of "a" adds both, a document with the lecture alone adds nothing
C27_Witness ==
    /\ ~ \E x \in db.subjects : x.name = <<"a">>
    /\ db.lectures # {}
    /\ LET item == [subject_name |-> <<"a">>, lecture_no |-> <<"2">>, content |-> <<" ", "a">>]
           c == import_database_json(db, [subjects |-> << [name |-> <<" ", "a">>] >>,
                                          lectures |-> <<item>>])
           alone == import_database_json(db, [lectures |-> <<item>>])
       IN /\ c.ret.subjects_imported = 1 /\ c.ret.lectures_imported = 1
          /\ Cardinality(c.db.lectures) = Cardinality(db.lectures) + 1
          /\ alone.db = db
          /\ Len(alone.ret.errors) = 1

\* a store with its three tables and no row in them
NoRows == [EmptyDb EXCEPT !.tables = AllTables]

\* the content of a store without the ids
Content(d) ==
    [subjects |-> {x.name : x \in d.subjects},
     lectures |-> {<<p[1].name, p[2].lecture_no, p[2].content>> :
                      p \in {q \in d.subjects \X d.lectures : q[2].subject_id = q[1].id}},
     books |-> {<<b.name, b.type, b.content>> : b \in d.books}]

\* C28: for every reachable store S, import_database_json of
\* export_database_json(S) into a store with no rows reports no error and
\* leaves a store with the subject names, the (subject name, lecture_no,
\* content) of the lectures and the (name, type, content) of the books of S.
C28_ExportImportRoundTrip ==
    \A c \in {import_database_json(NoRows, export_database_json(db))} :
       /\ "error" \notin DOMAIN c.ret
       /\ c.ret.errors = <<>>
       /\ Content(c.db) = Content(db)

\* the store holds the subject "a", a lecture and a book beside the default
\* subjects, and the import of its export brings all of them
C28_Witness ==
    /\ \E x \in db.subjects : x.name = <<"a">>
    /\ db.lectures # {} /\ db.books # {}
    /\ LET c == import_database_json(NoRows, export_database_json(db))
       IN /\ c.ret.subjects_imported = Cardinality(db.subjects)
          /\ c.ret.lectures_imported = 1
          /\ c.ret.books_imported = 1
          /\ c.db.seq # db.seq

\* sub occurs in text, letters compared without regard to case
Contains(text, sub) ==
    \E i \in 0 .. Len(text) - Len(sub) :
        lower(SubSeq(text, i + 1, i + Len(sub))) = lower(sub)

\* the queries searched for
Queries == { <<"a">>, <<" ", "G">>, <<"2">>, <<"_">>, <<"%">>, <<" ">>, <<>> }

\* the ids of the results of one kind
IdsOf(results, kind) ==
    {results[k].id : k \in {j \in 1 .. Len(results) : results[j].kind = kind}}

\* C29: on every reachable store and for every query, search_content returns a
\* result of kind subject for exactly the subjects whose name contains the
\* trimmed query, of kind lecture for exactly the lectures whose lecture_no or
\* content contains it, and of kind book for exactly the books whose name or
\* content contains it (letters compared without regard to case), the
\* subjects before the lectures and the lectures before the books; and for
\* an empty or blank query it returns the empty list and executes no storage
\* statement.
C29_SearchFindsSubstring ==
    \A query \in Queries :
        \A c \in {search_content(db, query)} :
           IF IsBlank(query)
           THEN c = Returns(db, <<>>) /\ search_content_statements(query) = <<>>
           ELSE /\ IdsOf(c.ret, "subject")
                      = {x.id : x \in {y \in db.subjects : Contains(y.name, strip(query))}}
                /\ IdsOf(c.ret, "lecture")
                      = {x.id : x \in {l \in db.lectures :
                                          \/ Contains(l.lecture_no, strip(query))
                                          \/ Contains(l.content, strip(query))}}
                /\ IdsOf(c.ret, "book")
                      = {x.id : x \in {b \in db.books :
                                          \/ Contains(b.name, strip(query))
                                          \/ Contains(b.content, strip(query))}}
                /\ \A j \in 1 .. Len(c.ret), k \in 1 .. Len(c.ret) :
                      j < k => <<c.ret[k].kind, c.ret[j].kind>> \notin
                                  { <<"subject", "lecture">>, <<"subject", "book">>,
                                    <<"lecture", "book">> }

----------------------------------------------------------------------------
(* Lecture and book content on its way to the chat (SpecCalls)            *)

\* the whole text is one link, [label](url)
WellFormedLink(text) == Len(text) > 0 /\ LinkEnd(text, 1) = Len(text)

StoredContents == {l.content : l \in db.lectures} \cup {b.content : b \in db.books}

\* C30: _clean_markdown gives back a well-formed link unchanged: the
\* placeholder that stands for the link survives the escaping of "_" and "*"
\* and is replaced by the link again, so the output equals the input.
C30_CleanPreservesLinks ==
    \A text \in StoredContents :
        WellFormedLink(text) => _clean_markdown(text) = text

\* every bracket and parenthesis of the text belongs to a [label](url) link
OnlyWellFormedLinks(text) ==
    \A i \in 1 .. Len(StoreLinks(text, 1, 0).content) :
        StoreLinks(text, 1, 0).content[i] \notin {"[", "]", "(", ")"}

\* C31: _clean_markdown is idempotent on a text whose links are all
\* well-formed: cleaning the cleaned text again changes nothing.
C31_CleanIdempotent ==
    \A text \in StoredContents :
        OnlyWellFormedLinks(text)
            => _clean_markdown(_clean_markdown(text)) = _clean_markdown(text)

----------------------------------------------------------------------------
(* Display of a lecture or a book (SpecCalls) *)

\* the requests of one display: the cleaned text first, in Markdown mode; the
\* stored content without parse mode and with the same keyboard exactly when
\* both Markdown requests failed
CleanedThenOriginal(sent, failing, content, cleaned_content, reply_markup) ==
    /\ Len(sent) >= 1
    /\ sent[1] = Request("edit_message_text", cleaned_content, reply_markup, MARKDOWN)
    /\ \A k \in 1 .. Len(sent) :
          /\ sent[k].reply_markup = reply_markup
          /\ sent[k].parse_mode = MARKDOWN => sent[k].text = cleaned_content
          /\ sent[k].parse_mode = PLAIN => sent[k].text = content
    /\ (\E k \in 1 .. Len(sent) : sent[k].parse_mode = PLAIN) <=> {1, 2} \subseteq failing
    /\ {1, 2} \subseteq failing
          => sent[3] = Request("edit_message_text", content, reply_markup, PLAIN)

\* the three session maps of w2 are those of w1
SessionsEqual(w1, w2) ==
    /\ w1.user_states = w2.user_states
    /\ w1.temp_data = w2.temp_data
    /\ w1.state_timestamps = w2.state_timestamps

\* C32: a lecture or a book is shown with the cleaned text in Markdown mode
\* first; the stored, uncleaned content is sent without parse mode and with
\* the same keyboard if and only if the Markdown edit and its fallback send
\* both failed; the session of the user who pressed the button, in whatever
\* flow it is, is unchanged.
C32_CleanedFirstThenOriginal ==
    /\ \A l \in db.lectures :
          \A cleaned_content \in {_clean_markdown(l.content)} :
             \A requests \in {LectureRequests(db, l.id)} :
                \A failing \in SUBSET Requests :
                    CleanedThenOriginal(requests[failing], failing, l.content,
                                        cleaned_content, lecture_view(l.subject_id))
    /\ \A b \in db.books :
          \A cleaned_content \in {_clean_markdown(b.content)} :
             \A t \in BookTypes :
                \A requests \in {BookRequests(db, b.id, t)} :
                   \A failing \in SUBSET Requests :
                       CleanedThenOriginal(requests[failing], failing, b.content,
                                           cleaned_content, book_view(t))
    /\ \A u \in Users, state \in FlowStates :
          \A w \in {_update_user_state(World, u, state)} :
             /\ \A l \in db.lectures :
                   SessionsEqual(w, button_callback(w, u, <<"lecture", IdTok(l.id)>>))
             /\ \A b \in db.books, t \in BookTypes :
                   SessionsEqual(w, button_callback(w, u, <<t, "book", IdTok(b.id)>>))

\* a stored link, whose cleaned text differs from it, and both Markdown
\* requests failed: the third request carries the stored link
C32_Witness ==
    \E l \in db.lectures :
        /\ l.content = LinkText
        /\ _clean_markdown(l.content) # l.content
        /\ LectureRequests(db, l.id)[{1, 2}][1].text = _clean_markdown(l.content)
        /\ LectureRequests(db, l.id)[{1, 2}][3].text = LinkText
        /\ Len(LectureRequests(db, l.id)[{2}]) = 1

----------------------------------------------------------------------------
(* The scratch data of the administrator's flows (SpecAdmin) *)

\* C33: in every state reached through /start, button and text events, the
\* administrator's scratch mapping holds the keys the text handler of the
\* administrator's state reads (RequiredKeys), so no text in that state takes
\* the session-expired branch or fails on a missing scratch entry.
C33_FlowStateHasItsScratch ==
    /\ RequiredKeys(StateOf(World, ADMIN_ID)) \subseteq ScratchKeys(World, ADMIN_ID)
    /\ RequiredKeys(StateOf(World, ADMIN_ID)) # {}
          => \A text \in PlainTexts :
                handle_text_message(World, ADMIN_ID, text).resp
                    \notin {"session_expired", "error"}

\* the second step of a flow: both keys of AddingLectureContent are there
C33_Witness ==
    /\ StateOf(World, ADMIN_ID) = ADDING_LECTURE_CONTENT
    /\ ScratchKeys(World, ADMIN_ID) = {"subject_id", "lecture_no"}

----------------------------------------------------------------------------
(* The three maps of the session store under the handlers and the clock    *)
(* (SpecFlows)                                                             *)

\* C34: in every reachable state the users with a recorded state are the
\* users with a recorded timestamp, and every user with a scratch mapping has
\* a recorded state: _update_user_state, _reset_user_state and the sweep never
\* leave one of the three maps with an entry the others lack.
C34_SessionMapsAgree ==
    /\ DOMAIN user_states = DOMAIN state_timestamps
    /\ DOMAIN temp_data \subseteq DOMAIN user_states

\* a flow with scratch data whose start ran the body of the sweep
C34_Witness ==
    /\ last_cleanup >= CLEANUP_INTERVAL
    /\ ADMIN_ID \in DOMAIN temp_data
    /\ ADMIN_ID \in DOMAIN user_states
    /\ state_timestamps[ADMIN_ID] = last_cleanup

----------------------------------------------------------------------------
(* The sweep and the user who triggers it (SpecClock) *)

\* C35: the sweep never clears the session of the user whose state change
\* runs it: right after _update_user_state(u, s) the state of u is s and the
\* scratch mapping of u is what it was before the call, also when the earlier
\* timestamp of u was more than two hours old and the sweep body ran.
C35_SweepSparesItsCaller ==
    \A u \in Users, state \in FlowStates :
        \A w \in {_update_user_state(World, u, state)} :
           /\ u \in DOMAIN w.user_states
           /\ w.user_states[u] = state
           /\ w.state_timestamps[u] = now
           /\ (u \in DOMAIN w.temp_data) <=> (u \in DOMAIN temp_data)
           /\ DictGet(w.temp_data, u, EmptyDict) = DictGet(temp_data, u, EmptyDict)

\* the administrator's session is stale, holds scratch data, and the call
\* runs the body of the sweep
C35_Witness ==
    /\ ADMIN_ID \in DOMAIN temp_data
    /\ ADMIN_ID \in DOMAIN state_timestamps
    /\ state_timestamps[ADMIN_ID] < now - STALE_AFTER
    /\ now - last_cleanup >= CLEANUP_INTERVAL
    /\ _update_user_state(World, ADMIN_ID, EDITING_LECTURE).last_cleanup = now
    /\ _update_user_state(World, ADMIN_ID, EDITING_LECTURE).temp_data[ADMIN_ID]
           = temp_data[ADMIN_ID]

----------------------------------------------------------------------------
(* Buttons that only navigate (SpecAdmin) *)

\* callback data of the menus, lists, views and confirmation prompts
NavigationData ==
    { <<"main", "menu">>, <<"lectures">>, <<"books">>,
      <<"ncert", "wallah">>, <<"upsc", "wallah">>, <<"other", "books">>,
      <<"admin", "settings">>, <<"manage", "subjects">>, <<"manage", "lectures">>,
      <<"manage", "books">>, <<"view", "all", "data">>, <<"view", "bot", "info">>,
      <<"user", "analytics">>, <<"database", "tools">>, <<"reset", "database">> }
    \cup { <<"manage", t, "books">> : t \in BookTypes }
    \cup UNION { { <<"subject", IdTok(i)>>, <<"manage", "lectures", "subject", IdTok(i)>>,
                   <<"delete", "subject", IdTok(i)>> } : i \in SubjectIds }
    \cup UNION { { <<"lecture", IdTok(i)>>, <<"delete", "lecture", IdTok(i)>> } :
                 i \in LectureIds }
    \cup { <<t, "book", IdTok(i)>> : t \in BookTypes, i \in BookIds }
    \cup { <<"delete", t, "book", IdTok(i)>> : t \in BookTypes, i \in BookIds }

\* C36: a button that only navigates leaves the state, the scratch mapping
\* and the timestamp of every user as they were, so a flow in progress is not
\* cancelled and the next text is handled in the state of that flow.
C36_NavigationKeepsSession ==
    \A u \in Users :
        \A before \in {[text \in PlainTexts |-> handle_text_message(World, u, text).resp]} :
           \A data \in NavigationData :
              \A w \in {button_callback(World, u, data)} :
                 /\ SessionsEqual(World, w)
                 /\ w.last_cleanup = last_cleanup
                 /\ \A text \in PlainTexts :
                       handle_text_message(w, u, text).resp = before[text]

\* the administrator is in the second step of a flow and opens the main menu
C36_Witness ==
    /\ StateOf(World, ADMIN_ID) = ADDING_BOOK_CONTENT
    /\ ScratchKeys(World, ADMIN_ID) = {"book_type", "book_name"}
    /\ button_callback(World, ADMIN_ID, <<"main", "menu">>).resp = "main_menu"
    /\ StateOf(button_callback(World, ADMIN_ID, <<"main", "menu">>), ADMIN_ID)
           = ADDING_BOOK_CONTENT

----------------------------------------------------------------------------
(* Buttons and the content of the repository (SpecAdmin) *)

\* callback data of the confirm buttons
ConfirmData ==
    { <<"confirm", "reset", "database">> }
    \cup { <<"confirm", "delete", "subject", IdTok(i)>> : i \in SubjectIds }
    \cup { <<"confirm", "delete", "lecture", IdTok(i)>> : i \in LectureIds }
    \cup { <<"confirm", "delete", t, "book", IdTok(i)>> : t \in BookTypes, i \in BookIds }

\* C37: of the administrator's buttons only the confirm buttons change the
\* repository: the prompts delete_subject_<id>, delete_lecture_<id>,
\* delete_<type>_book_<id> and reset_database, like every other button, leave
\* it as it is; confirm_delete_subject_<id> removes the subject with that id
\* (and with it the lectures it owns), confirm_delete_lecture_<id> the lecture
\* with that id, confirm_delete_<type>_book_<id> the book with that id, and
\* confirm_reset_database leaves the default subjects and nothing else.
C37_OnlyConfirmChangesStore ==
    /\ \A data \in ButtonData \ ConfirmData :
          button_callback(World, ADMIN_ID, data).db = db
    /\ \A i \in SubjectIds :
          \A w \in {button_callback(World, ADMIN_ID, <<"confirm", "delete", "subject", IdTok(i)>>)} :
             /\ w.db.subjects = {x \in db.subjects : x.id # i}
             /\ w.db.lectures = {l \in db.lectures : l.subject_id # i}
             /\ w.db.books = db.books
    /\ \A i \in LectureIds :
          \A w \in {button_callback(World, ADMIN_ID, <<"confirm", "delete", "lecture", IdTok(i)>>)} :
             /\ w.db.subjects = db.subjects
             /\ w.db.lectures = {l \in db.lectures : l.id # i}
             /\ w.db.books = db.books
    /\ \A i \in BookIds, t \in BookTypes :
          \A w \in {button_callback(World, ADMIN_ID, <<"confirm", "delete", t, "book", IdTok(i)>>)} :
             /\ w.db.subjects = db.subjects
             /\ w.db.lectures = db.lectures
             /\ w.db.books = {b \in db.books : b.id # i}
    /\ \A w \in {button_callback(World, ADMIN_ID, <<"confirm", "reset", "database">>)} :
          /\ {x.name : x \in w.db.subjects}
                = {DEFAULT_SUBJECTS[k] : k \in 1 .. Len(DEFAULT_SUBJECTS)}
          /\ w.db.lectures = {}
          /\ w.db.books = {}

\* a lecture and a book are stored; the prompt for the lecture is shown and
\* the confirm button removes it
C37_Witness ==
    /\ \E l \in db.lectures : l.id = 1
    /\ \E b \in db.books : b.id = 1
    /\ button_callback(World, ADMIN_ID, <<"delete", "lecture", "1">>).resp
          = "confirm_delete_lecture"
    /\ button_callback(World, ADMIN_ID, <<"confirm", "delete", "lecture", "1">>).db.lectures = {}

----------------------------------------------------------------------------
(* The import of lectures through the ImportingJson flow (Spec) *)

\* the files sent: those of JsonTexts and one lecture of a subject not stored
ImportTexts == JsonTexts \cup { <<"[", "{", "a", "a", "a", "}", "]">> }

\* C38: every item with subject_name, lecture_no and content that the import
\* counts has become a lecture of the subject with the name of the item, also
\* when the import itself created that subject: the lectures added are as
\* many as the count, and each belongs to the subject some item names.
C38_ImportAttachesToNamedSubject ==
    \A text \in ImportTexts :
        \A w \in {handle_text_message(_update_user_state(World, ADMIN_ID, IMPORTING_JSON),
                                      ADMIN_ID, text)} :
           /\ w.count = Cardinality(w.db.lectures \ db.lectures)
           /\ \A l \in w.db.lectures \ db.lectures :
                 \E k \in 1 .. Len(json_loads(text).items), x \in w.db.subjects :
                    /\ x.id = l.subject_id
                    /\ x.name = strip(json_loads(text).items[k].subject_name)
                    /\ l.lecture_no = strip(json_loads(text).items[k].lecture_no)
                    /\ l.content = strip(json_loads(text).items[k].content)

----------------------------------------------------------------------------
(* The welcome text (Spec) *)

\* C39: the welcome text that /start and the main menu show is the text of
\* the last completed ChangingWelcomeMessage flow, trimmed (the variable
\* welcome, config.WELCOME_MESSAGE), and the configured default before any
\* change.
C39_WelcomeShownIsCurrent ==
    \A u \in Users :
        /\ start_command(World, u).resp = "welcome"
        /\ button_callback(World, u, <<"main", "menu">>).resp = "main_menu"
        /\ WelcomeText(start_command(World, u)) = welcome
        /\ WelcomeText(button_callback(World, u, <<"main", "menu">>)) = welcome

----------------------------------------------------------------------------
(* The administrator's flows and the keyboards displayed (SpecButtons) *)

\* the flow states no button of a displayed keyboard leads to
StatesWithoutButton ==
    { EDITING_LECTURE, SEARCHING_CONTENT, SEARCHING_LECTURES, IMPORTING_JSON }

\* the administrator, pressing only buttons the bot displayed, is never in one
\* of these states
NoButtonLeadsThere ==
    DictGet(user_states, ADMIN_ID, NORMAL) \notin StatesWithoutButton


\* C40: every state other than Normal (EditingLecture, SearchingContent,
\* SearchingLectures and ImportingJson included) is reachable for the
\* administrator from /start by pressing only buttons of keyboards the bot
\* displayed, and every button of a displayed keyboard produces a response when
\* pressed.  The formula is the second half: whatever button has been displayed
\* to the administrator, pressing it now gets a reply.
C40_EveryShownButtonAnswers ==
    \A data \in shown : button_callback(World, ADMIN_ID, data).resp # "none"

----------------------------------------------------------------------------
(* Properties of the repository under concurrent callers (SpecRepo) *)

\* the images a caller can read: the committed one and the open transactions'
Images == {db} \cup {conn[t].view : t \in {u \in Threads : conn[u].tx}}

\* C3: a call that met "database is locked" has run the statements of its
\* with statement a second time (exactly two runs) by the time it ends.
C3_LockedIsRetriedOnce ==
    \A t \in Threads : (th[t].at = "idle" /\ th[t].locked) => th[t].ran = 2

\* C4: no with statement that ended with an exception has committed changes
\* its statements made.
C4_ErrorPersistsNothing ==
    \A t \in Threads : ~ th[t].kept

\* C5: whenever a caller is about to read the subjects while another caller is
\* inside reset_database, the store it reads has all its tables and at least
\* the subjects of a complete store (it is never the dropped, unseeded one).
C5_ResetIsAtomic ==
    \A t \in Threads : \A u \in Threads \ {t} :
        (/\ th[t].op = "reset_database" /\ th[t].at = "body"
         /\ th[u].op = "get_subjects" /\ th[u].at = "body" /\ th[u].pc = 1) =>
            /\ AllTables \subseteq db.tables
            /\ SqlSelectSubjects(db).rows # {}

\* C6: in every reachable state, in the committed store and in every open
\* transaction, the subject_id of every lecture is the id of a stored subject.
C6_LecturesHaveSubjects ==
    \A d \in Images : \A l \in d.lectures : \E x \in d.subjects : x.id = l.subject_id

\* an add_lecture whose subject was deleted by the other thread between its
\* SELECT and its INSERT was refused by the foreign key
C6_Witness ==
    \E t \in Threads : \E u \in Threads \ {t} :
        /\ th[t].op = "add_lecture" /\ th[t].at = "idle"
        /\ th[t].err = "IntegrityError" /\ th[t].ret = "False"
        /\ th[u].op = "delete_subject" /\ th[u].at = "idle" /\ th[u].ret = "True"
        /\ db.lectures = {}

\* rename_subject on store d, to the name of another stored subject or of an id
\* that is not stored, returns False and changes nothing
RenameRefused(d) ==
    \A i \in 1 .. MaxSubjectId + 1, text \in ArgTexts :
        (\/ \E y \in d.subjects : y.id # i /\ y.name = strip(text)
         \/ ~ \E x \in d.subjects : x.id = i) =>
            rename_subject(d, i, text) = Returns(d, FALSE)

\* C9: in every reachable state, in the committed store and in every open
\* transaction, no two subjects have the same name; and on the initial store
\* and on every store a step commits, rename_subject to the name of another
\* stored subject returns False and changes nothing, and rename_subject of an
\* id that is not stored returns False and changes nothing.
C9_SubjectNamesUnique ==
    /\ [](\A d \in Images : \A x \in d.subjects, y \in d.subjects : x.name = y.name => x = y)
    /\ RenameRefused(db)
    /\ [][db' # db => RenameRefused(db')]_vars

\* one thread added the subject "a", the other's rename of subject 1 to "a"
\* was refused by the UNIQUE constraint
C9_Witness ==
    \E t \in Threads : \E u \in Threads \ {t} :
        /\ th[t].op = "add_subject" /\ th[t].at = "idle" /\ th[t].ret = "True"
        /\ th[u].op = "rename_subject" /\ th[u].at = "idle" /\ th[u].id = 1
        /\ th[u].err = "IntegrityError" /\ th[u].ret = "False"
        /\ [id |-> 1, name |-> DEFAULT_SUBJECTS[1]] \in db.subjects
        /\ [id |-> 7, name |-> <<"a">>] \in db.subjects

====
